---- MODULE Spec2Model ----
(***************************************************************************)
(* A model of the Docker Registry v2 client (lib/registry-client-v2.ts,    *)
(* lib/docker-json-client.ts, lib/www-authenticate.ts).                    *)
(*                                                                         *)
(* One RegistryClientV2 instance talks to a registry whose answers are     *)
(* chosen nondeterministically.  Every public operation is a call that     *)
(* runs in a call slot; a step of a call is the code between two awaits.   *)
(* Strings the code inspects character by character (the WWW-Authenticate  *)
(* header, the realm) are sequences of one-character strings.              *)
(***************************************************************************)
EXTENDS Integers, Sequences, FiniteSets, TLC

(* Number of call slots: calls that may be in flight on the one client. *)
MaxCalls == 2

Calls == 1..MaxCalls

(* JavaScript null / undefined, and a header that is not in a Headers set. *)
Null == "<null>"

-----------------------------------------------------------------------------
(* Characters and strings                                                  *)

LowerLetters == {"a","b","c","d","e","f","g","h","i","j","k","l","m","n","o",
                 "p","q","r","s","t","u","v","w","x","y","z"}
UpperLetters == {"A","B","C","D","E","F","G","H","I","J","K","L","M","N","O",
                 "P","Q","R","S","T","U","V","W","X","Y","Z"}
Digits == {"0","1","2","3","4","5","6","7","8","9"}

(* \w of a JavaScript regular expression *)
IsWordChar(ch) == ch \in LowerLetters \cup UpperLetters \cup Digits \cup {"_"}

(* \s of a JavaScript regular expression (the model's alphabet has only the
   blank and the tab) *)
IsSpaceChar(ch) == ch \in {" ", "\t"}

(* String.prototype.toLowerCase on one character *)
LowerChar(ch) ==
    CASE ch = "A" -> "a" [] ch = "B" -> "b" [] ch = "C" -> "c" [] ch = "D" -> "d"
      [] ch = "E" -> "e" [] ch = "F" -> "f" [] ch = "G" -> "g" [] ch = "H" -> "h"
      [] ch = "I" -> "i" [] ch = "J" -> "j" [] ch = "K" -> "k" [] ch = "L" -> "l"
      [] ch = "M" -> "m" [] ch = "N" -> "n" [] ch = "O" -> "o" [] ch = "P" -> "p"
      [] ch = "Q" -> "q" [] ch = "R" -> "r" [] ch = "S" -> "s" [] ch = "T" -> "t"
      [] ch = "U" -> "u" [] ch = "V" -> "v" [] ch = "W" -> "w" [] ch = "X" -> "x"
      [] ch = "Y" -> "y" [] ch = "Z" -> "z" [] OTHER -> ch

(* a sequence of characters as one string *)
RECURSIVE Str(_)
Str(cs) == IF cs = <<>> THEN "" ELSE Head(cs) \o Str(Tail(cs))

(* ToLowerCase that leaves the letters as they are *)
ToLowerCaseKeepsCase(cs) == Str(cs)

(* String.prototype.toLowerCase *)
ToLowerCase(cs) == Str([i \in 1..Len(cs) |-> LowerChar(cs[i])])

(* String.prototype.trim *)
RECURSIVE TrimLeft(_)
TrimLeft(cs) ==
    IF cs # <<>> /\ IsSpaceChar(Head(cs)) THEN TrimLeft(Tail(cs)) ELSE cs

RECURSIVE TrimRight(_)
TrimRight(cs) ==
    IF cs # <<>> /\ IsSpaceChar(cs[Len(cs)])
    THEN TrimRight(SubSeq(cs, 1, Len(cs) - 1)) ELSE cs

Trim(cs) == TrimRight(TrimLeft(cs))

(* Array.prototype.join *)
RECURSIVE Join(_, _)
Join(strs, sep) ==
    IF strs = <<>> THEN ""
    ELSE IF Len(strs) = 1 THEN strs[1]
    ELSE strs[1] \o sep \o Join(Tail(strs), sep)

-----------------------------------------------------------------------------
(* lib/www-authenticate.ts                                                 *)

(* header.split(/([",=])/): the pieces between separators and the separators
   themselves, in order; empty pieces are kept (the parser skips them). *)
IsSeparator(ch) == ch \in {"\"", ",", "="}

RECURSIVE SplitSeparators(_, _)
SplitSeparators(cs, cur) ==
    IF cs = <<>> THEN <<cur>>
    ELSE IF IsSeparator(Head(cs))
         THEN <<cur, <<Head(cs)>>>> \o SplitSeparators(Tail(cs), <<>>)
         ELSE SplitSeparators(Tail(cs), Append(cur, Head(cs)))

(* parms[key] = value on an object: the pairs are kept as a set with one
   pair per key; keys and values are sequences of characters *)
ParmSet(parms, key, value) ==
    {p \in parms : p[1] # key} \cup {<<key, value>>}

ParmHas(parms, key) == \E p \in parms : p[1] = key

ParmGet(parms, key) == (CHOOSE p \in parms : p[1] = key)[2]

(* ParseStep that takes a doubled quote for nothing *)
ParseStepDropsDoubledQuote(st, tok) ==
    IF st.err # Null \/ tok = <<>> THEN st
    ELSE CASE st.state = 0 ->
                [st EXCEPT !.key = Trim(tok), !.state = 1]
           [] st.state = 1 ->
                IF tok # <<"=">>
                THEN [st EXCEPT !.err = "Equal sign was expected after " \o Str(st.key)]
                ELSE [st EXCEPT !.state = 2]
           [] st.state = 2 ->
                IF tok = <<"\"">>
                THEN [st EXCEPT !.value = <<>>, !.state = 3]
                ELSE [st EXCEPT !.value = Trim(tok),
                                !.parms = ParmSet(st.parms, st.key, Trim(tok)),
                                !.state = 9]
           [] st.state = 3 ->
                IF tok = <<"\"">>
                THEN [st EXCEPT !.state = 8]
                ELSE [st EXCEPT !.value = st.value \o tok, !.state = 3]
           [] st.state = 8 ->
                IF tok = <<"\"">>
                THEN [st EXCEPT !.state = 3]
                ELSE IF tok = <<",">>
                THEN [st EXCEPT !.parms = ParmSet(st.parms, st.key, st.value),
                                !.state = 0]
                ELSE [st EXCEPT !.err = "Unexpected token (" \o Str(tok)
                                        \o ") after " \o Str(st.value) \o "\""]
           [] st.state = 9 ->
                IF tok # <<",">>
                THEN [st EXCEPT !.err = "Comma expected after " \o Str(st.value)]
                ELSE [st EXCEPT !.state = 0]

(* Parser.parse_params: the loop over the tokens.  st is
   [state, key, value, parms, err]; err # Null ends the parse. *)
ParseStep(st, tok) ==
    IF st.err # Null \/ tok = <<>> THEN st
    ELSE CASE st.state = 0 ->
                [st EXCEPT !.key = Trim(tok), !.state = 1]
           [] st.state = 1 ->
                IF tok # <<"=">>
                THEN [st EXCEPT !.err = "Equal sign was expected after " \o Str(st.key)]
                ELSE [st EXCEPT !.state = 2]
           [] st.state = 2 ->
                IF tok = <<"\"">>
                THEN [st EXCEPT !.value = <<>>, !.state = 3]
                ELSE [st EXCEPT !.value = Trim(tok),
                                !.parms = ParmSet(st.parms, st.key, Trim(tok)),
                                !.state = 9]
           [] st.state = 3 ->
                IF tok = <<"\"">>
                THEN [st EXCEPT !.state = 8]
                ELSE [st EXCEPT !.value = st.value \o tok, !.state = 3]
           [] st.state = 8 ->
                IF tok = <<"\"">>
                THEN [st EXCEPT !.value = Append(st.value, "\""), !.state = 3]
                ELSE IF tok = <<",">>
                THEN [st EXCEPT !.parms = ParmSet(st.parms, st.key, st.value),
                                !.state = 0]
                ELSE [st EXCEPT !.err = "Unexpected token (" \o Str(tok)
                                        \o ") after " \o Str(st.value) \o "\""]
           [] st.state = 9 ->
                IF tok # <<",">>
                THEN [st EXCEPT !.err = "Comma expected after " \o Str(st.value)]
                ELSE [st EXCEPT !.state = 0]

RECURSIVE ParseLoop(_, _)
ParseLoop(st, toks) ==
    IF toks = <<>> THEN st ELSE ParseLoop(ParseStep(st, Head(toks)), Tail(toks))

(* Parser.parse_params: [parms, err], err = Null when the parse succeeds *)
parse_params(header) ==
    LET st0 == [state |-> 0, key |-> <<>>, value |-> <<>>, parms |-> {}, err |-> Null]
        st  == ParseLoop(st0, SplitSeparators(header, <<>>))
    IN  IF st.err # Null THEN [parms |-> st.parms, err |-> st.err]
        ELSE CASE st.state \in {0, 9} -> [parms |-> st.parms, err |-> Null]
               [] st.state = 8 ->
                    [parms |-> ParmSet(st.parms, st.key, st.value), err |-> Null]
               [] OTHER ->
                    [parms |-> st.parms,
                     err |-> "Unexpected end of www-authenticate value."]

(* The regular expression ParseAuth (a word, white space, the rest): the
   leftmost run of word characters that is followed by white space.  The
   result is [matched, scheme, rest]. *)
WordRunEnd(cs, i) ==
    CHOOSE j \in i..Len(cs) :
        /\ \A k \in i..j : IsWordChar(cs[k])
        /\ (j = Len(cs) \/ ~IsWordChar(cs[j + 1]))

SpaceRunEnd(cs, i) ==
    CHOOSE j \in i..Len(cs) :
        /\ \A k \in i..j : IsSpaceChar(cs[k])
        /\ (j = Len(cs) \/ ~IsSpaceChar(cs[j + 1]))

ParseAuthStarts(cs) ==
    {i \in 1..Len(cs) :
        /\ IsWordChar(cs[i])
        /\ WordRunEnd(cs, i) < Len(cs)
        /\ IsSpaceChar(cs[WordRunEnd(cs, i) + 1])}

ParseAuth(cs) ==
    IF ParseAuthStarts(cs) = {} THEN [matched |-> FALSE, scheme |-> <<>>, rest |-> <<>>]
    ELSE LET i == CHOOSE k \in ParseAuthStarts(cs) : \A l \in ParseAuthStarts(cs) : k <= l
             e == WordRunEnd(cs, i)
             s == SpaceRunEnd(cs, e + 1)
         IN  [matched |-> TRUE, scheme |-> SubSeq(cs, i, e),
              rest |-> SubSeq(cs, s + 1, Len(cs))]

(* Parse_WWW_Authenticate that leaves what parse_params had stored when it
   stopped at an error *)
Parse_WWW_AuthenticateKeepsParms(to_parse) ==
    LET m == ParseAuth(to_parse)
    IN  IF ~m.matched
        THEN [thrown |-> TRUE, scheme |-> <<>>, parms |-> {}, err |-> Null]
        ELSE LET r == parse_params(m.rest)
             IN  IF r.err # Null
                 THEN [thrown |-> FALSE, scheme |-> m.scheme, parms |-> r.parms,
                       err |-> r.err]
                 ELSE [thrown |-> FALSE, scheme |-> m.scheme, parms |-> r.parms,
                       err |-> Null]

(* new Parse_WWW_Authenticate(to_parse): [thrown, scheme, parms, err].
   thrown: to_parse.match(ParseAuth) is null and m[1] raises a TypeError. *)
Parse_WWW_Authenticate(to_parse) ==
    LET m == ParseAuth(to_parse)
    IN  IF ~m.matched
        THEN [thrown |-> TRUE, scheme |-> <<>>, parms |-> {}, err |-> Null]
        ELSE LET r == parse_params(m.rest)
             IN  IF r.err # Null
                 THEN [thrown |-> FALSE, scheme |-> <<>>, parms |-> {}, err |-> r.err]
                 ELSE [thrown |-> FALSE, scheme |-> m.scheme, parms |-> r.parms,
                       err |-> Null]

-----------------------------------------------------------------------------
(* Headers objects (the Fetch API): a set of <<name, value>> pairs with one
   pair per name                                                          *)

HeadersHas(h, name) == \E p \in h : p[1] = name

HeadersGet(h, name) ==
    IF HeadersHas(h, name) THEN (CHOOSE p \in h : p[1] = name)[2] ELSE Null

HeadersSet(h, name, value) == {p \in h : p[1] # name} \cup {<<name, value>>}

HeadersDelete(h, name) == {p \in h : p[1] # name}

(* btoa on the user:password strings of the model *)
Btoa(s) ==
    CASE s = ":"   -> "Og=="
      [] s = "u:"  -> "dTo="
      [] s = ":p"  -> "OnA="
      [] s = "u:p" -> "dTpw"

_basicAuthHeader(username, password) ==
    "Basic " \o Btoa(username \o ":" \o password)

(* An AuthInfo object.  A field that is undefined or the empty string is "":
   the code tests the fields only for truthiness and reads them with ?? ''. *)
AuthInfo(type, username, password, token) ==
    [type |-> type, username |-> username, password |-> password, token |-> token]

(* this._authInfo = null *)
NullAuthInfo == AuthInfo("null", "", "", "")

(* _setAuthHeaderFromAuthInfo that never removes the header *)
SetAuthHeaderKeepsOld(headers, authInfo) ==
    IF authInfo.token # ""
    THEN HeadersSet(headers, "authorization", "Bearer " \o authInfo.token)
    ELSE IF authInfo.username # "" \/ authInfo.password # ""
    THEN HeadersSet(headers, "authorization",
                    _basicAuthHeader(authInfo.username, authInfo.password))
    ELSE headers

_setAuthHeaderFromAuthInfo(headers, authInfo) ==
    IF authInfo.token # ""
    THEN HeadersSet(headers, "authorization", "Bearer " \o authInfo.token)
    ELSE IF authInfo.username # "" \/ authInfo.password # ""
    THEN HeadersSet(headers, "authorization",
                    _basicAuthHeader(authInfo.username, authInfo.password))
    ELSE HeadersDelete(headers, "authorization")

_makeAuthScope(resource, name, actions) ==
    resource \o ":" \o name \o ":" \o Join(actions, ",")

-----------------------------------------------------------------------------
(* The state: the client, the objects it refers to, the calls in flight    *)

VARIABLES
    opts,            \* the constructor's username, password and token
    given,           \* opts.repo and opts.scheme as the caller handed them over
    heap,            \* the index objects, by reference
    repo,            \* this.repo
    _url,            \* this._url
    challenge,       \* the WWW-Authenticate header handed to the parser
    parsed,          \* what new Parse_WWW_Authenticate(challenge) gave
    stream,          \* a blob download: the responses and the byte stream
    _loggedIn,       \* this._loggedIn
    _loggedInScope,  \* this._loggedInScope
    _authInfo,       \* this._authInfo
    _headers,        \* this._headers
    calls            \* the call running in each slot

vars == <<opts, given, heap, repo, _url, challenge, parsed, stream, _loggedIn,
          _loggedInScope, _authInfo, _headers, calls>>

streamVars == <<stream>>

parserVars == <<challenge, parsed>>

repoVars == <<given, heap, repo, _url>>

clientVars == <<_loggedIn, _loggedInScope, _authInfo, _headers>>

-----------------------------------------------------------------------------
(* The registry, the token server and what they may answer                 *)

RegistryUrl == "https://registry.example"
DEFAULT_USERAGENT == "deno-docker_registry_client"
RemoteName == "lib/app"
DEFAULT_V2_REGISTRY == "https://registry-1.docker.io"

(* a RegistryIndex object *)
RegistryIndex(name, scheme, official) ==
    [name |-> name, scheme |-> scheme, official |-> official]

(* a RegistryImage object: its index is a reference into the heap *)
RegistryImage(index, remoteName) == [index |-> index, remoteName |-> remoteName]

(* the references: the index object of the caller's repo, and the one the
   copy of the constructor allocates *)
CallerIndex == "callerIndex"
CopiedIndex == "copiedIndex"

NoIndex == RegistryIndex("", "", FALSE)

(* the repo object the caller hands to the constructor *)
CallerRepo == RegistryImage(CallerIndex, RemoteName)

(* the heap before the constructor runs: the caller's index object alone *)
CallerHeap(index) == [r \in {CallerIndex, CopiedIndex} |->
                        IF r = CallerIndex THEN index ELSE NoIndex]

(* deepObjCopy(obj): a copy that shares no object with obj, so its index is
   a new object with the same fields *)
deepObjCopy(h, obj) ==
    [heap |-> [h EXCEPT ![CopiedIndex] = h[obj.index]],
     obj |-> [obj EXCEPT !.index = CopiedIndex]]

isLocalhost(name) == name = "localhost"

(* urlFromIndex(index): scheme://name, https when the index names no scheme *)
urlFromIndex(index) ==
    (IF index.scheme = "" THEN "https" ELSE index.scheme) \o "://" \o index.name

(* the constructor that keeps the caller's object: this.repo = opts.repo *)
ConstructOnCallerObject(h, optsRepo, scheme) ==
    LET ref == optsRepo.index
        h1 == IF scheme # "" THEN [h EXCEPT ![ref].scheme = scheme]
              ELSE IF h[ref].scheme = "" /\ isLocalhost(h[ref].name)
              THEN [h EXCEPT ![ref].scheme = "http"]
              ELSE h
    IN  [heap |-> h1, repo |-> optsRepo,
         url |-> IF h1[ref].official THEN DEFAULT_V2_REGISTRY
                 ELSE urlFromIndex(h1[ref])]

(* the constructor, as far as this.repo and this._url go: the copy of
   opts.repo, the scheme that is given or the http of localhost written to
   the index of the copy, and the URL of that index *)
Construct(h, optsRepo, scheme) ==
    LET copied == deepObjCopy(h, optsRepo)
        ref == copied.obj.index
        h0 == copied.heap
        h1 == IF scheme # "" THEN [h0 EXCEPT ![ref].scheme = scheme]
              ELSE IF h0[ref].scheme = "" /\ isLocalhost(h0[ref].name)
              THEN [h0 EXCEPT ![ref].scheme = "http"]
              ELSE h0
    IN  [heap |-> h1, repo |-> copied.obj,
         url |-> IF h1[ref].official THEN DEFAULT_V2_REGISTRY
                 ELSE urlFromIndex(h1[ref])]

(* what the caller hands over: the index of its repo object and the scheme
   option ("" is none) *)
Given(index, scheme) == [index |-> index, scheme |-> scheme]

StandardGiven == Given(RegistryIndex("registry.example", "https", FALSE), "")

Givens ==
    {Given(RegistryIndex(n, s, o), o2) :
        n \in {"registry.example", "localhost"}, s \in {"", "https"},
        o \in {FALSE}, o2 \in {"", "http"}}
    \cup {Given(RegistryIndex("docker.io", "https", TRUE), "")}

(* WWW-Authenticate header values, as sequences of characters *)
HdrBasic == <<"B","a","s","i","c"," ","r","e","a","l","m","=","\"","r","\"">>
HdrBasicUpper == <<"B","A","S","I","C"," ","r","=","x">>
HdrBearer ==
    <<"B","e","a","r","e","r"," ","r","e","a","l","m","=","\"","h","t","t","p",
      "s",":","/","/","a","/","t","\"",",","s","e","r","v","i","c","e","=","s">>
HdrBearerBareRealm == <<"b","e","a","r","e","r"," ","r","e","a","l","m","=","a">>
HdrBearerFtpRealm ==
    <<"B","e","a","r","e","r"," ","r","e","a","l","m","=","\"","f","t","p",":",
      "/","/","a","\"">>
HdrDigest == <<"D","i","g","e","s","t"," ","r","e","a","l","m","=","x">>
HdrMalformed == <<"B","e","a","r","e","r"," ","r","e","a","l","m">>
HdrNoParams == <<"B","a","s","i","c">>

(* the empty sequence is a header that is absent (get() gives null) or empty:
   the code tests the value only for truthiness *)
NoHeader == <<>>

ChalHeaders == {HdrBasic, HdrBasicUpper, HdrBearer, HdrBearerBareRealm,
                HdrBearerFtpRealm, HdrDigest, HdrMalformed, HdrNoParams}

(* a response to GET /v2/ ; bodyOk: resp.dockerBody() does not throw *)
PingResponses ==
    [status : {200, 401, 404, 500}, wwwAuth : ChalHeaders \cup {NoHeader},
     bodyOk : BOOLEAN]

Tokens == {"", "tA", "tB"}

(* the JSON body of a token response: json is "object" (token is a string, a
   number or missing), or "invalid" (resp.json() throws) *)
TokenBodies ==
    [json : {"object"}, tokenType : {"string"}, token : Tokens]
    \cup [json : {"object"}, tokenType : {"number", "missing"}, token : {""}]
    \cup [json : {"invalid"}, tokenType : {"missing"}, token : {""}]

(* The JSON value of an error body, as far as _getRegistryErrorMessage
   looks at it.  undefined: dockerJson() found a body of white space; body:
   the property "body" with its own "errors" and "details"; errors: the
   property "errors", an array of objects given by their "message"; details
   and message: the properties of these names.  "" is a property that is
   missing *)
ErrorList(isArray, messages) == [isArray |-> isArray, messages |-> messages]

NoErrorList == ErrorList(FALSE, <<>>)

NoBodyProp == [present |-> FALSE, errors |-> NoErrorList, details |-> ""]

ErrorJson(body, errors, details, message) ==
    [undefined |-> FALSE, body |-> body, errors |-> errors, details |-> details,
     message |-> message]

UndefinedJson == [ErrorJson(NoBodyProp, NoErrorList, "", "") EXCEPT !.undefined = TRUE]

EmptyObject == ErrorJson(NoBodyProp, NoErrorList, "", "")

(* the message the server gives *)
ServerMessage == "denied"

(* {"errors": [{"message": "denied"}]} *)
ErrorsShape == ErrorJson(NoBodyProp, ErrorList(TRUE, <<ServerMessage>>), "", "")

(* {"details": "denied"} *)
DetailsShape == ErrorJson(NoBodyProp, NoErrorList, ServerMessage, "")

ErrorJsons ==
    { UndefinedJson, EmptyObject, ErrorsShape, DetailsShape,
      ErrorJson(NoBodyProp, NoErrorList, "", ServerMessage),
      ErrorJson(NoBodyProp, ErrorList(TRUE, <<>>), "", ""),
      ErrorJson(NoBodyProp, ErrorList(TRUE, <<"">>), "", ServerMessage),
      ErrorJson([present |-> TRUE, errors |-> ErrorList(TRUE, <<ServerMessage>>),
                 details |-> ""], NoErrorList, "", ""),
      ErrorJson([present |-> TRUE, errors |-> NoErrorList,
                 details |-> ServerMessage], NoErrorList, "", "") }

(* a response of the token endpoint: its status, its body as resp.json()
   reads it, and for a 401 the JSON value dockerJson() gives *)
TokenResponses ==
    [status : {200, 500}, body : TokenBodies, errJson : {EmptyObject}]
    \cup [status : {401},
          body : {[json |-> "invalid", tokenType |-> "missing", token |-> ""]},
          errJson : {EmptyObject}]
    \cup [status : {401},
          body : {[json |-> "object", tokenType |-> "missing", token |-> ""]},
          errJson : ErrorJsons]

-----------------------------------------------------------------------------
(* Requests, as DockerJsonClient.request sends them                        *)

(* DockerJsonClient.request: the headers of the request that is fetched *)
RequestHeaders(optsHeaders, accept, userAgent) ==
    LET h1 == IF ~HeadersHas(optsHeaders, "accept") /\ accept # ""
              THEN HeadersSet(optsHeaders, "accept", accept)
              ELSE optsHeaders
    IN  HeadersSet(h1, "user-agent", userAgent)

Request(kind, method, url, query, headers) ==
    [kind |-> kind, method |-> method, url |-> url, query |-> query,
     headers |-> headers]

(* ping(): client.get({path: '/v2/', ...}) on a fresh DockerJsonClient *)
PingRequest ==
    Request("ping", "GET",
            (IF heap[repo.index].official THEN DEFAULT_V2_REGISTRY
             ELSE urlFromIndex(heap[repo.index])) \o "/v2/", <<>>,
            RequestHeaders({}, "application/json", DEFAULT_USERAGENT))

-----------------------------------------------------------------------------
(* login(): the code after the challenge header is known                   *)

(* what a piece of code between two awaits ends with: it throws err, it
   returns authInfo, or it sends req and awaits the response *)
Throw(err) ==
    [kind |-> "throw", err |-> err, authInfo |-> NullAuthInfo,
     req |-> Request("none", "", "", <<>>, {})]
Return(authInfo) ==
    [kind |-> "return", err |-> Null, authInfo |-> authInfo,
     req |-> Request("none", "", "", <<>>, {})]
Await(req) ==
    [kind |-> "await", err |-> Null, authInfo |-> NullAuthInfo, req |-> req]

(* the match of the realm against a leading word followed by "://" :
   the scheme, or the empty sequence when there is no match *)
RealmScheme(realm) ==
    IF realm = <<>> \/ ~IsWordChar(realm[1]) THEN <<>>
    ELSE LET e == WordRunEnd(realm, 1)
         IN  IF e + 3 <= Len(realm) /\ SubSeq(realm, e + 1, e + 3) = <<":", "/", "/">>
             THEN SubSeq(realm, 1, e) ELSE <<>>

(* _getToken up to its request: the token URL, the query, the headers *)
_getToken(realm, service, scopes, username, password, insecure, userAgent) ==
    LET m == RealmScheme(realm)
        tokenUrl == IF m = <<>>
                    THEN (IF insecure THEN "http" ELSE "https") \o "://" \o Str(realm)
                    ELSE Str(realm)
        q1 == IF service # <<>> THEN <<<<"service", Str(service)>>>> ELSE <<>>
        q2 == q1 \o [i \in 1..Len(scopes) |-> <<"scope", scopes[i]>>]
        q3 == IF username # "" THEN Append(q2, <<"account", username>>) ELSE q2
        h  == IF username # ""
              THEN _setAuthHeaderFromAuthInfo({}, AuthInfo("", username, password, ""))
              ELSE {}
    IN  IF m # <<>> /\ Str(m) \notin {"http", "https"}
        THEN Throw("unsupported scheme for WWW-Authenticate realm")
        ELSE Await(Request("token", "GET", tokenUrl, q3,
                           RequestHeaders(h, "application/json",
                                          IF userAgent # "" THEN userAgent
                                          ELSE DEFAULT_USERAGENT)))

UndefinedChars == <<"u","n","d","e","f","i","n","e","d">>
KeyRealm == <<"r","e","a","l","m">>
KeyService == <<"s","e","r","v","i","c","e">>

(* LoginChallenge that takes a missing header for a registry without
   authentication *)
LoginChallengeMissingIsNone(chalHeader, scope, username, password, userAgent) ==
    IF chalHeader = NoHeader
    THEN Return(AuthInfo("none", "", "", ""))
    ELSE LET authChallenge == Parse_WWW_Authenticate(chalHeader)
         IN  IF authChallenge.thrown
             THEN Throw("TypeError")
             ELSE IF authChallenge.err # Null
             THEN Throw("could not parse WWW-Authenticate header")
             ELSE IF ToLowerCase(authChallenge.scheme) = "basic"
             THEN Return(AuthInfo("basic", username, password, ""))
             ELSE IF ToLowerCase(authChallenge.scheme) = "bearer"
             THEN _getToken(
                    IF ParmHas(authChallenge.parms, KeyRealm)
                    THEN ParmGet(authChallenge.parms, KeyRealm) ELSE UndefinedChars,
                    IF ParmHas(authChallenge.parms, KeyService)
                    THEN ParmGet(authChallenge.parms, KeyService) ELSE <<>>,
                    IF scope # "" THEN <<scope>> ELSE <<>>,
                    username, password, FALSE, userAgent)
             ELSE Throw("unsupported auth scheme")

(* LoginChallenge that answers a scheme it does not know like Basic *)
LoginChallengeUnknownIsBasic(chalHeader, scope, username, password, userAgent) ==
    IF chalHeader = NoHeader
    THEN Throw("missing WWW-Authenticate header in 401 response to \"GET /v2/\"")
    ELSE LET authChallenge == Parse_WWW_Authenticate(chalHeader)
         IN  IF authChallenge.thrown
             THEN Throw("TypeError")
             ELSE IF authChallenge.err # Null
             THEN Throw("could not parse WWW-Authenticate header")
             ELSE IF ToLowerCase(authChallenge.scheme) = "bearer"
             THEN _getToken(
                    IF ParmHas(authChallenge.parms, KeyRealm)
                    THEN ParmGet(authChallenge.parms, KeyRealm) ELSE UndefinedChars,
                    IF ParmHas(authChallenge.parms, KeyService)
                    THEN ParmGet(authChallenge.parms, KeyService) ELSE <<>>,
                    IF scope # "" THEN <<scope>> ELSE <<>>,
                    username, password, FALSE, userAgent)
             ELSE Return(AuthInfo("basic", username, password, ""))

(* login() from the test of chalHeader on *)
LoginChallenge(chalHeader, scope, username, password, userAgent) ==
    IF chalHeader = NoHeader
    THEN Throw("missing WWW-Authenticate header in 401 response to \"GET /v2/\"")
    ELSE LET authChallenge == Parse_WWW_Authenticate(chalHeader)
         IN  IF authChallenge.thrown
             THEN Throw("TypeError")
             ELSE IF authChallenge.err # Null
             THEN Throw("could not parse WWW-Authenticate header")
             ELSE IF ToLowerCase(authChallenge.scheme) = "basic"
             THEN Return(AuthInfo("basic", username, password, ""))
             ELSE IF ToLowerCase(authChallenge.scheme) = "bearer"
             THEN _getToken(
                    IF ParmHas(authChallenge.parms, KeyRealm)
                    THEN ParmGet(authChallenge.parms, KeyRealm) ELSE UndefinedChars,
                    IF ParmHas(authChallenge.parms, KeyService)
                    THEN ParmGet(authChallenge.parms, KeyService) ELSE <<>>,
                    IF scope # "" THEN <<scope>> ELSE <<>>,
                    username, password, FALSE, userAgent)
             ELSE Throw("unsupported auth scheme")

(* LoginAfterPing that looks for a challenge in a 200 response as well *)
LoginAfterPingAlwaysChallenge(res, scope, username, password, userAgent) ==
    IF res.status \notin {200, 401, 404}
    THEN Throw("Received unexpected HTTP status from /v2/")
    ELSE IF ~res.bodyOk
    THEN Throw("ping body could not be decoded")
    ELSE IF res.status \in {200, 401}
    THEN LoginChallenge(res.wwwAuth, scope, username, password, userAgent)
    ELSE Throw("HTTP 404 from ping endpoint")

(* login() after ping() has returned res *)
LoginAfterPing(res, scope, username, password, userAgent) ==
    IF res.status \notin {200, 401, 404}
    THEN Throw("Received unexpected HTTP status from /v2/")
    ELSE IF ~res.bodyOk
    THEN Throw("ping body could not be decoded")
    ELSE IF res.status = 200 THEN Return(AuthInfo("none", "", "", ""))
    ELSE IF res.status = 401
    THEN LoginChallenge(res.wwwAuth, scope, username, password, userAgent)
    ELSE Throw("HTTP 404 from ping endpoint")

(* a value in a string concatenation: a property that is missing reads
   "undefined" *)
Shown(value) == IF value = "" THEN "undefined" ELSE value

(* _getRegistryErrorMessage(err): [thrown, msg]; thrown: the code reads a
   property of undefined, a TypeError *)
_getRegistryErrorMessage(err) ==
    IF err.undefined THEN [thrown |-> TRUE, msg |-> ""]
    ELSE IF err.body.present /\ err.body.errors.isArray
            /\ err.body.errors.messages # <<>>
    THEN [thrown |-> FALSE, msg |-> Shown(err.body.errors.messages[1])]
    ELSE IF err.body.present /\ err.body.details # ""
    THEN [thrown |-> FALSE, msg |-> err.body.details]
    ELSE IF err.errors.isArray /\ err.errors.messages = <<>>
    THEN [thrown |-> TRUE, msg |-> ""]
    ELSE IF err.errors.isArray /\ err.errors.messages[1] # ""
    THEN [thrown |-> FALSE, msg |-> err.errors.messages[1]]
    ELSE IF err.message # ""
    THEN [thrown |-> FALSE, msg |-> err.message]
    ELSE [thrown |-> FALSE, msg |-> "[object Object]"]

AuthFailed == "Registry 401 - Auth failed: "

(* LoginAfterToken without the test of the type of body.token *)
LoginAfterTokenUnchecked(resp) ==
    IF resp.status \notin {200, 401}
    THEN Throw("Received unexpected HTTP status from the token endpoint")
    ELSE IF resp.status = 401
    THEN IF resp.body.json = "invalid"
         THEN Throw("Invalid JSON in response")
         ELSE LET errMsg == _getRegistryErrorMessage(resp.errJson)
              IN  IF errMsg.thrown THEN Throw("TypeError")
                  ELSE Throw(AuthFailed \o errMsg.msg)
    ELSE IF resp.body.json = "invalid"
    THEN Throw("token response is not JSON")
    ELSE Return(AuthInfo("bearer", "", "", resp.body.token))

(* _getToken after its request has been answered; the result of login() *)
LoginAfterToken(resp) ==
    IF resp.status \notin {200, 401}
    THEN Throw("Received unexpected HTTP status from the token endpoint")
    ELSE IF resp.status = 401
    THEN IF resp.body.json = "invalid"
         THEN Throw("Invalid JSON in response")
         ELSE LET errMsg == _getRegistryErrorMessage(resp.errJson)
              IN  IF errMsg.thrown THEN Throw("TypeError")
                  ELSE Throw(AuthFailed \o errMsg.msg)
    ELSE IF resp.body.json = "invalid"
    THEN Throw("token response is not JSON")
    ELSE IF resp.body.tokenType # "string"
    THEN Throw("authorization server did not include a token in the response")
    ELSE Return(AuthInfo("bearer", "", "", resp.body.token))

-----------------------------------------------------------------------------
(* Responses to the operations' requests                                   *)

MEDIATYPE_MANIFEST_V2 == "application/vnd.docker.distribution.manifest.v2+json"
MEDIATYPE_MANIFEST_LIST_V2 ==
    "application/vnd.docker.distribution.manifest.list.v2+json"
MEDIATYPE_OCI == "application/vnd.oci.image.manifest.v1+json"

(* a parsed manifest, of the shape the Manifest types declare: the fields
   manifests, layers, fsLayers and history are arrays or are missing (a
   field of another type is not modelled).  An array field is its length, -1
   when the field is missing; mediaType is Null and schemaVersion is 0 when
   the field is missing *)
Manifest(schemaVersion, mediaType, manifests, layers, fsLayers, history) ==
    [schemaVersion |-> schemaVersion, mediaType |-> mediaType,
     manifests |-> manifests, layers |-> layers, fsLayers |-> fsLayers,
     history |-> history]

NoManifest == Manifest(0, Null, -1, -1, -1, -1)

ManifestBodies ==
    { Manifest(2, MEDIATYPE_MANIFEST_V2, -1, 2, -1, -1),
      Manifest(2, MEDIATYPE_MANIFEST_V2, -1, 0, -1, -1),
      Manifest(2, MEDIATYPE_MANIFEST_V2, -1, -1, -1, -1),
      Manifest(2, MEDIATYPE_MANIFEST_LIST_V2, 2, -1, -1, -1),
      Manifest(2, MEDIATYPE_MANIFEST_LIST_V2, 0, -1, -1, -1),
      Manifest(2, MEDIATYPE_MANIFEST_LIST_V2, -1, 1, -1, -1),
      Manifest(2, MEDIATYPE_OCI, -1, 1, -1, -1),
      Manifest(2, Null, -1, 1, -1, -1),
      Manifest(1, Null, -1, -1, 2, 2),
      Manifest(1, Null, -1, -1, 2, 1),
      Manifest(1, Null, -1, -1, 0, 0),
      Manifest(1, Null, -1, -1, -1, -1),
      Manifest(3, Null, -1, 1, -1, -1),
      Manifest(2, MEDIATYPE_MANIFEST_V2, 2, -1, -1, -1),
      Manifest(2, MEDIATYPE_MANIFEST_V2, -1, -1, 2, 2),
      Manifest(1, MEDIATYPE_MANIFEST_LIST_V2, 2, -1, -1, -1),
      Manifest(0, Null, -1, -1, 2, -1) }

(* a response to an operation's request.  decodeOk: dockerBody() does not
   throw (Content-MD5, gzip and Content-Length agree with the body); json:
   what dockerJson() finds, "value" (a JSON text), "invalid" or "empty" (a
   body of white space: undefined); errBody: the body of an error status
   names a code and a message; html: the content-type starts with
   text/html *)
OpResponse(status, decodeOk, json, errBody, html, manifest) ==
    [status |-> status, decodeOk |-> decodeOk, json |-> json,
     errBody |-> errBody, html |-> html, manifest |-> manifest]

JsonResponses ==
    {OpResponse(st, d, j, FALSE, FALSE, NoManifest) :
        st \in {200, 202}, d \in BOOLEAN, j \in {"value", "invalid", "empty"}}
    \cup {OpResponse(st, d, "value", e, FALSE, NoManifest) :
        st \in {302, 401, 404}, d \in BOOLEAN, e \in BOOLEAN}
    \cup {OpResponse(st, d, "invalid", FALSE, TRUE, NoManifest) :
        st \in {302, 401, 404}, d \in BOOLEAN}

ManifestResponses ==
    {OpResponse(200, TRUE, "value", FALSE, FALSE, m) : m \in ManifestBodies}
    \cup {r \in JsonResponses : r.status # 200 \/ ~r.decodeOk \/ r.json # "value"}

(* the Location header of a blob response: none, another origin, a path on
   the origin that answered *)
LocCdn == "https://cdn.example/blob"
LocPath == "/v2/moved"
Locations == {Null, LocCdn, LocPath}

(* a response in the blob loop.  reqNo: the request it answers; consumed:
   its body has been read; decodeOk: dockerBody() on it does not throw;
   html: its content-type starts with text/html *)
BlobResponse(reqNo, status, location, decodeOk, html) ==
    [reqNo |-> reqNo, status |-> status, location |-> location,
     decodeOk |-> decodeOk, html |-> html, consumed |-> FALSE]

BlobResponses(reqNo) ==
    { BlobResponse(reqNo, 200, Null, TRUE, FALSE),
      BlobResponse(reqNo, 404, Null, TRUE, FALSE),
      BlobResponse(reqNo, 404, Null, FALSE, TRUE),
      BlobResponse(reqNo, 301, LocCdn, TRUE, FALSE),
      BlobResponse(reqNo, 301, LocCdn, TRUE, TRUE),
      BlobResponse(reqNo, 302, Null, TRUE, FALSE),
      BlobResponse(reqNo, 307, Null, TRUE, FALSE),
      BlobResponse(reqNo, 302, LocCdn, TRUE, FALSE),
      BlobResponse(reqNo, 302, LocCdn, FALSE, TRUE),
      BlobResponse(reqNo, 307, LocCdn, TRUE, FALSE),
      BlobResponse(reqNo, 307, LocPath, TRUE, FALSE) }

(* the origin of a URL of the model *)
UrlOrigin(url) ==
    CASE url = LocCdn -> "https://cdn.example"
      [] OTHER -> RegistryUrl

(* new URL(location, new URL(req.path, req.client.url)): origin and path *)
ResolveLocation(location, reqOrigin) ==
    CASE location = LocCdn -> [origin |-> "https://cdn.example", path |-> "/blob"]
      [] OTHER -> [origin |-> reqOrigin, path |-> location]

-----------------------------------------------------------------------------
(* Blob downloads: the Docker-Content-Digest header and the digest
   validator.  A byte is 0 or 1, a chunk is a sequence of bytes, and the
   hash stands for sha256: it depends on the bytes and their order alone,
   not on how they are cut into chunks.                                     *)

MaxChunks == 2

HexDigits ==
    <<"0", "1", "2", "3", "4", "5", "6", "7", "8", "9", "a", "b", "c", "d", "e", "f">>

(* hash.digest('hex'): two hexadecimal digits *)
Hex(h) == <<HexDigits[(h \div 16) + 1], HexDigits[(h % 16) + 1]>>

(* hash.update(chunk) *)
RECURSIVE HashUpdate(_, _)
HashUpdate(h, chunk) ==
    IF chunk = <<>> THEN h
    ELSE HashUpdate((h * 3 + Head(chunk) + 1) % 256, Tail(chunk))

(* the hash of all the bytes of a sequence of chunks *)
RECURSIVE HashOfChunks(_, _)
HashOfChunks(h, chunks) ==
    IF chunks = <<>> THEN h
    ELSE HashOfChunks(HashUpdate(h, Head(chunks)), Tail(chunks))

Sha256 == <<"s", "h", "a", "2", "5", "6">>

(* a digest as it is written: the algorithm, a colon, the hexadecimal hash *)
DigestOf(chunks) == Sha256 \o <<":">> \o Hex(HashOfChunks(0, chunks))

(* parseDigestHeader(value): the value is cut at its first colon; it fails
   when there is no colon or the algorithm is not sha256 *)
parseDigestHeader(value) ==
    LET colons == {i \in 1..Len(value) : value[i] = ":"}
        at == CHOOSE i \in colons : \A j \in colons : i <= j
    IN  IF colons = {} \/ SubSeq(value, 1, at - 1) # Sha256
        THEN [failed |-> TRUE, raw |-> value, algorithm |-> <<>>,
              expectedDigest |-> <<>>]
        ELSE [failed |-> FALSE, raw |-> value, algorithm |-> Sha256,
              expectedDigest |-> SubSeq(value, at + 1, Len(value))]

(* createBlobReadStream that compares no digest: every header that parses
   is taken *)
createBlobReadStreamAnyDigest(ress, digest) ==
    LET dcdHeader == ress[1].dcd
    IN  IF dcdHeader = <<>>
        THEN [err |-> Null, validated |-> FALSE, expected |-> <<>>]
        ELSE LET dcdInfo == parseDigestHeader(dcdHeader)
             IN  IF dcdInfo.failed
                 THEN [err |-> "could not parse Docker-Content-Digest header",
                       validated |-> FALSE, expected |-> <<>>]
                 ELSE [err |-> Null, validated |-> TRUE,
                       expected |-> dcdInfo.expectedDigest]

(* createBlobReadStream once the responses of the GET are there: the header
   of the first response decides whether the stream of the last one is
   refused, handed out through the validator, or handed out as it is *)
createBlobReadStream(ress, digest) ==
    LET dcdHeader == ress[1].dcd
    IN  IF dcdHeader = <<>>
        THEN [err |-> Null, validated |-> FALSE, expected |-> <<>>]
        ELSE LET dcdInfo == parseDigestHeader(dcdHeader)
             IN  IF dcdInfo.failed
                 THEN [err |-> "could not parse Docker-Content-Digest header",
                       validated |-> FALSE, expected |-> <<>>]
                 ELSE IF dcdInfo.raw # digest
                 THEN [err |-> "Docker-Content-Digest header does not match given digest",
                       validated |-> FALSE, expected |-> <<>>]
                 ELSE [err |-> Null, validated |-> TRUE,
                       expected |-> dcdInfo.expectedDigest]

(* ValidatorTransform that compares the digest after every chunk, and on a
   mismatch raises the error at once and withholds the chunk *)
ValidatorTransformChecksEarly(s, chunk) ==
    LET h == HashUpdate(s.hash, chunk)
    IN  IF s.validated /\ Hex(h) # s.expected
        THEN [s EXCEPT !.hash = h, !.read = s.read + 1, !.pc = "errored",
                       !.err = "digest mismatch", !.errors = s.errors + 1]
        ELSE [s EXCEPT !.hash = h, !.read = s.read + 1, !.out = Append(s.out, chunk)]

(* the validator on a chunk: the chunk goes to the hash and, unchanged, to
   the output; a stream without a validator hands the chunk on *)
ValidatorTransform(s, chunk) ==
    [s EXCEPT !.hash = IF s.validated THEN HashUpdate(s.hash, chunk) ELSE s.hash,
              !.read = s.read + 1,
              !.out = Append(s.out, chunk)]

(* the validator at the end of the stream: the digest of all the bytes is
   compared with the expected one *)
ValidatorFlush(s) ==
    IF s.validated /\ Hex(s.hash) # s.expected
    THEN [s EXCEPT !.pc = "errored", !.err = "digest mismatch",
                   !.errors = s.errors + 1]
    ELSE [s EXCEPT !.pc = "ended"]

(* a response of the blob request, as far as a download reads it *)
StreamResponse(status, dcd) == [status |-> status, dcd |-> dcd]

(* a download: the digest asked for, the responses, the chunks the last
   response will give, and how far the stream has come *)
Download(digest, ress, source) ==
    [pc |-> "responded", digest |-> digest, ress |-> ress, source |-> source,
     read |-> 0, out |-> <<>>, validated |-> FALSE, expected |-> <<>>,
     hash |-> 0, err |-> Null, errors |-> 0]

(* no blob is being downloaded *)
NoStream == [Download(<<>>, <<>>, <<>>) EXCEPT !.pc = "none"]

-----------------------------------------------------------------------------
(* The client and the calls in flight                                      *)

(* this.scopes: opts.scopes ?? ['pull'] *)
ClientScopes == <<"pull">>

ScopePull == "repository:lib/app:pull"
ScopePush == "repository:lib/app:pull,push"

(* opts.scope of a login call; "" is a call without a scope *)
ScopeArgs == {"", ScopePull, ScopePush}

(* opts.pingRes of a login call: not given, or the response of an earlier
   ping with its WWW-Authenticate header *)
PingResArgs ==
    [given : {FALSE}, wwwAuth : {NoHeader}]
    \cup [given : {TRUE}, wwwAuth : {NoHeader, HdrBasic, HdrBearer, HdrMalformed}]

Operations == {"listTags", "getManifest", "deleteManifest", "headBlob"}

(* the auth state of the client, as one value *)
ClientState ==
    [loggedIn |-> _loggedIn, scope |-> _loggedInScope, authInfo |-> _authInfo,
     headers |-> _headers]

(* the options of a getManifest call; "undefined" and 0 are options that are
   not given *)
ManifestArg(acceptManifestLists, maxSchemaVersion, followRedirects) ==
    [acceptManifestLists |-> acceptManifestLists,
     maxSchemaVersion |-> maxSchemaVersion,
     followRedirects |-> followRedirects]

ManifestArgs ==
    { ManifestArg("undefined", 0, "undefined"),
      ManifestArg("undefined", 2, "undefined"),
      ManifestArg("true", 2, "true"),
      ManifestArg("false", 2, "false"),
      ManifestArg("true", 1, "undefined"),
      ManifestArg("true", 0, "false") }

NoArgs == ManifestArg("undefined", 0, "undefined")

(* what a call has returned *)
Returned(kind, status, manifest) ==
    [kind |-> kind, status |-> status, manifest |-> manifest]

NothingReturned == Returned("none", 0, NoManifest)

(* the response DockerJsonClient.request turned into an error: its status,
   whether its body has been read, and whether dockerError() made an error
   of it (parsed) or rejected; status 0 when there is none *)
NoneRejected == [status |-> 0, consumed |-> TRUE, parsed |-> TRUE]

(* what ping() returned to login(): the status of the response, and the
   WWW-Authenticate header login() reads from a 401; status 0 when ping()
   has not returned *)
NotPinged == [status |-> 0, chal |-> NoHeader]

(* the response of the token endpoint a call has got; status 0: none *)
NoToken ==
    [status |-> 0, body |-> [json |-> "object", tokenType |-> "missing", token |-> ""],
     errJson |-> EmptyObject]

(* what ping() gave supportsV2(): the status and the
   Docker-Distribution-Api-Version header of the response it returned
   (status 0: none), or the error it threw and the status of the response
   that error carries (errStatus 0: it carries none) *)
NotPonged == [status |-> 0, apiVersion |-> <<>>, err |-> Null, errStatus |-> 0]

(* A call.  op, args, scope: the operation, its options, its login scope;
   pc: the await the call is at; result: what login() returned; err and
   errStatus: the error the call failed with and the status of the response
   the error carries (0: none); req, numRedirs, ress: the variables of
   _makeHttpRequest; ret: the value returned.  hit, loginDone, reqs, chal,
   rejected, ponged, got and pre record history: the login step was a cache
   hit, the login step has succeeded, the requests the call has sent, the
   challenge header that came with pingRes, the response whose status was
   not expected, what ping() gave supportsV2(), the manifest getManifest has
   parsed, what ping() returned (pinged), the response of the token endpoint
   (tokened), the client when the call began. *)
IdleCall ==
    [op |-> "none", args |-> NoArgs, pc |-> "idle", scope |-> "",
     result |-> NullAuthInfo, err |-> Null, errStatus |-> 0,
     req |-> [origin |-> "", path |-> "", headers |-> {}],
     numRedirs |-> 0, ress |-> <<>>, ret |-> NothingReturned,
     hit |-> FALSE, loginDone |-> FALSE, reqs |-> <<>>, chal |-> NoHeader,
     rejected |-> NoneRejected, pinged |-> NotPinged, tokened |-> NoToken,
     ponged |-> NotPonged, got |-> NoManifest,
     pre |-> [loggedIn |-> FALSE, scope |-> Null, authInfo |-> NullAuthInfo,
              headers |-> {}]]

(* the options a client is constructed with; maxSchemaVersion 0 is an
   option that is not given *)
ClientOpts ==
    [username : {"", "u"}, password : {"", "p"}, token : {"", "t0"},
     acceptManifestLists : {FALSE}, maxSchemaVersion : {0}]
    \cup [username : {""}, password : {""}, token : {""},
          acceptManifestLists : BOOLEAN, maxSchemaVersion : {0, 2}]

(* this.repo and this._url of a client made from one of givens *)
Constructed(givens) ==
    /\ given \in givens
    /\ LET made == Construct(CallerHeap(given.index), CallerRepo, given.scheme)
       IN  heap = made.heap /\ repo = made.repo /\ _url = made.url

(* the auth state of a new client, and no call in flight *)
InitClient ==
    /\ opts \in ClientOpts
    /\ _loggedIn = FALSE
    /\ _loggedInScope = Null
    /\ _authInfo = NullAuthInfo
    /\ _headers = _setAuthHeaderFromAuthInfo({},
                      AuthInfo("", opts.username, opts.password, opts.token))
    /\ calls = [c \in Calls |-> IdleCall]

(* no header has been handed to the parser *)
NoChallenge == [scheme |-> <<>>, pairs |-> <<>>]

NotParsed == [thrown |-> FALSE, scheme |-> <<>>, parms |-> {}, err |-> "<not parsed>"]

(* new RegistryClientV2(opts) for the repository of the registry *)
Init ==
    /\ Constructed({StandardGiven})
    /\ InitClient
    /\ challenge = NoChallenge /\ parsed = NotParsed
    /\ stream = NoStream

NoCallInFlight == \A c \in Calls : calls[c].pc = "idle"

(* the slot a new call takes: the first one that is free *)
FirstFree(c) ==
    /\ calls[c].pc = "idle"
    /\ \A d \in Calls : d < c => calls[d].pc # "idle"

(* LoginCached without the cache: every call logs in again *)
LoginCachedNever(scope) == FALSE

(* LoginCached without the scope: any login serves any scope *)
LoginCachedAnyScope(scope) == _loggedIn

(* RegistryClientV2.login: the test that makes a login call return at once *)
LoginCached(scope) == _loggedIn /\ _loggedInScope = scope

(* where a call goes on when its login step is over *)
AfterLogin(op) == IF op = "login" THEN "done" ELSE "authed"

(* LoginOutcome that swallows the error of login() *)
LoginOutcomeIgnoresError(call, out) ==
    CASE out.kind = "throw"  -> [call EXCEPT !.pc = AfterLogin(call.op)]
      [] out.kind = "return" -> [call EXCEPT !.pc = "loginReturned",
                                             !.result = out.authInfo]
      [] out.kind = "await"  -> [call EXCEPT !.pc = out.req.kind,
                                             !.reqs = Append(call.reqs, out.req)]

(* the call's state after a piece of login() code ended with out *)
LoginOutcome(call, out) ==
    CASE out.kind = "throw"  -> [call EXCEPT !.pc = "failed", !.err = out.err]
      [] out.kind = "return" -> [call EXCEPT !.pc = "loginReturned",
                                             !.result = out.authInfo]
      [] out.kind = "await"  -> [call EXCEPT !.pc = out.req.kind,
                                             !.reqs = Append(call.reqs, out.req)]

(* EnterLogin that pings whatever pingRes it is given *)
EnterLoginAlwaysPings(c, op, args, scopeArg, pingRes) ==
    LET scope == IF scopeArg # "" THEN scopeArg
                 ELSE _makeAuthScope("repository", RemoteName, ClientScopes)
        chalHeader == IF pingRes.given THEN pingRes.wwwAuth ELSE NoHeader
        call0 == [IdleCall EXCEPT !.op = op, !.args = args, !.scope = scope,
                                  !.chal = chalHeader, !.pre = ClientState]
    IN  /\ FirstFree(c)
        /\ calls' = [calls EXCEPT ![c] =
              IF LoginCached(scope)
              THEN [call0 EXCEPT !.pc = AfterLogin(op), !.hit = TRUE,
                                  !.loginDone = TRUE]
              ELSE LoginOutcome(call0, Await(PingRequest))]
        /\ UNCHANGED <<opts, repoVars, streamVars, parserVars, clientVars>>

(* RegistryClientV2.login up to its first await: the scope, the cache test,
   and login() up to ping() or, with a challenge in pingRes, up to the token
   request *)
EnterLogin(c, op, args, scopeArg, pingRes) ==
    LET scope == IF scopeArg # "" THEN scopeArg
                 ELSE _makeAuthScope("repository", RemoteName, ClientScopes)
        chalHeader == IF pingRes.given THEN pingRes.wwwAuth ELSE NoHeader
        call0 == [IdleCall EXCEPT !.op = op, !.args = args, !.scope = scope,
                                  !.chal = chalHeader, !.pre = ClientState]
    IN  /\ FirstFree(c)
        /\ calls' = [calls EXCEPT ![c] =
              IF LoginCached(scope)
              THEN [call0 EXCEPT !.pc = AfterLogin(op), !.hit = TRUE,
                                  !.loginDone = TRUE]
              ELSE IF chalHeader = NoHeader
              THEN LoginOutcome(call0, Await(PingRequest))
              ELSE LoginOutcome(call0,
                     LoginChallenge(chalHeader, scope, opts.username,
                                    opts.password, DEFAULT_USERAGENT))]
        /\ UNCHANGED <<opts, repoVars, streamVars, parserVars, clientVars>>

(* client.login({scope, pingRes}) is called *)
StartLogin(c) ==
    \E scopeArg \in ScopeArgs, pingRes \in PingResArgs :
        EnterLogin(c, "login", NoArgs, scopeArg, pingRes)

(* what ping() hands to login() for the response res *)
PingReturned(res) ==
    IF res.status \in {200, 401, 404} /\ res.bodyOk
    THEN [status |-> res.status,
          chal |-> IF res.status = 401 THEN res.wwwAuth ELSE NoHeader]
    ELSE NotPinged

(* the response to the GET /v2/ of login() arrives, one of responses *)
PingResponseOf(c, responses) ==
    /\ calls[c].pc = "ping"
    /\ \E res \in responses :
        calls' = [calls EXCEPT ![c] =
            LoginOutcome([calls[c] EXCEPT !.pinged = PingReturned(res)],
                LoginAfterPing(res, calls[c].scope, opts.username, opts.password,
                               DEFAULT_USERAGENT))]
    /\ UNCHANGED <<opts, repoVars, streamVars, parserVars, clientVars>>

(* the response to the GET /v2/ of login() arrives *)
PingResponse(c) == PingResponseOf(c, PingResponses)

(* TokenResponse that marks the client logged in for the scope whatever the
   token endpoint answered *)
TokenResponseMarksLoggedIn(c) ==
    /\ calls[c].pc = "token"
    /\ \E resp \in TokenResponses :
        calls' = [calls EXCEPT ![c] =
            LoginOutcome([calls[c] EXCEPT !.tokened = resp], LoginAfterToken(resp))]
    /\ _loggedIn' = TRUE
    /\ _loggedInScope' = calls[c].scope
    /\ UNCHANGED <<opts, repoVars, streamVars, parserVars, _authInfo, _headers>>

(* the response of the token endpoint arrives, one of responses *)
TokenResponseOf(c, responses) ==
    /\ calls[c].pc = "token"
    /\ \E resp \in responses :
        calls' = [calls EXCEPT ![c] =
            LoginOutcome([calls[c] EXCEPT !.tokened = resp], LoginAfterToken(resp))]
    /\ UNCHANGED <<opts, repoVars, streamVars, parserVars, clientVars>>

(* the response of the token endpoint arrives *)
TokenResponse(c) == TokenResponseOf(c, TokenResponses)

(* LoginComplete that keeps the login the client already has *)
LoginCompleteFirstWins(c) ==
    /\ calls[c].pc = "loginReturned"
    /\ IF _loggedIn
       THEN UNCHANGED clientVars
       ELSE /\ _loggedIn' = TRUE
            /\ _loggedInScope' = calls[c].scope
            /\ _authInfo' = calls[c].result
            /\ _headers' = _setAuthHeaderFromAuthInfo(_headers, calls[c].result)
    /\ calls' = [calls EXCEPT ![c].pc = AfterLogin(calls[c].op),
                              ![c].loginDone = TRUE]
    /\ UNCHANGED <<opts, repoVars, streamVars, parserVars>>

(* LoginComplete that leaves the default headers as they were *)
LoginCompleteKeepsHeaders(c) ==
    /\ calls[c].pc = "loginReturned"
    /\ _loggedIn' = TRUE
    /\ _loggedInScope' = calls[c].scope
    /\ _authInfo' = calls[c].result
    /\ _headers' = _headers
    /\ calls' = [calls EXCEPT ![c].pc = AfterLogin(calls[c].op),
                              ![c].loginDone = TRUE]
    /\ UNCHANGED <<opts, repoVars, streamVars, parserVars>>

(* LoginComplete that does not keep the credential *)
LoginCompleteWithoutCredential(c) ==
    /\ calls[c].pc = "loginReturned"
    /\ _loggedIn' = TRUE
    /\ _loggedInScope' = calls[c].scope
    /\ _authInfo' = _authInfo
    /\ _headers' = _setAuthHeaderFromAuthInfo(_headers, calls[c].result)
    /\ calls' = [calls EXCEPT ![c].pc = AfterLogin(calls[c].op),
                              ![c].loginDone = TRUE]
    /\ UNCHANGED <<opts, repoVars, streamVars, parserVars>>

(* RegistryClientV2.login after `await login(...)`: the side effects *)
LoginComplete(c) ==
    /\ calls[c].pc = "loginReturned"
    /\ _loggedIn' = TRUE
    /\ _loggedInScope' = calls[c].scope
    /\ _authInfo' = calls[c].result
    /\ _headers' = _setAuthHeaderFromAuthInfo(_headers, calls[c].result)
    /\ calls' = [calls EXCEPT ![c].pc = AfterLogin(calls[c].op),
                              ![c].loginDone = TRUE]
    /\ UNCHANGED <<opts, repoVars, streamVars, parserVars>>

-----------------------------------------------------------------------------
(* The operations: every one starts with `await this.login()`              *)

(* client.listTags(), getManifest(opts), deleteManifest(opts) or
   headBlob(opts) is called *)
StartOperation(c) ==
    \E op \in Operations :
        \E args \in IF op = "getManifest" THEN ManifestArgs ELSE {NoArgs} :
            EnterLogin(c, op, args, "", [given |-> FALSE, wwwAuth |-> NoHeader])

(* a call that failed *)
Failed(call, err, errStatus) ==
    [call EXCEPT !.pc = "failed", !.err = err, !.errStatus = errStatus]

(* resp.dockerError(): the body is read by dockerJson() for a status from
   400 on, and by dockerBody() when the message is still empty and the
   content-type is not text/html *)
ErrorBodyRead(resp) == resp.status >= 400 \/ ~resp.html

(* resp.dockerError() rejects: dockerBody() is reached and throws *)
ErrorBodyFails(resp) == ~resp.html /\ ~resp.decodeOk

(* UnexpectedStatus whose error never carries the response *)
UnexpectedStatusDropsResponse(call, resp) ==
    Failed([call EXCEPT !.rejected = [status |-> resp.status,
                                      consumed |-> ErrorBodyRead(resp),
                                      parsed |-> ~ErrorBodyFails(resp)]],
           "Received unexpected HTTP status", 0)

(* DockerJsonClient.request on a response whose status is not expected: the
   error of resp.dockerError(), which carries the response, or the plain
   error when dockerError() rejects *)
UnexpectedStatus(call, resp) ==
    LET seen == [call EXCEPT !.rejected = [status |-> resp.status,
                                           consumed |-> ErrorBodyRead(resp),
                                           parsed |-> ~ErrorBodyFails(resp)]]
    IN  IF ~ErrorBodyFails(resp)
        THEN Failed(seen, "Received unexpected HTTP status", resp.status)
        ELSE Failed(seen, "Received unexpected HTTP status - and failed to parse error body", 0)

(* getManifest: the effective options *)
EffectiveAcceptManifestLists(args) ==
    IF args.acceptManifestLists = "undefined" THEN opts.acceptManifestLists
    ELSE args.acceptManifestLists = "true"

EffectiveMaxSchemaVersion(args) ==
    IF args.maxSchemaVersion # 0 THEN args.maxSchemaVersion
    ELSE IF opts.maxSchemaVersion # 0 THEN opts.maxSchemaVersion ELSE 1

(* getManifest: the headers of the manifest request *)
ManifestHeaders(args) ==
    IF EffectiveMaxSchemaVersion(args) = 2
    THEN LET accept0 == IF HeadersHas(_headers, "accept")
                        THEN <<HeadersGet(_headers, "accept")>> ELSE <<>>
             accept1 == Append(accept0, MEDIATYPE_MANIFEST_V2)
             accept2 == IF EffectiveAcceptManifestLists(args)
                        THEN Append(accept1, MEDIATYPE_MANIFEST_LIST_V2)
                        ELSE accept1
         IN  HeadersSet(_headers, "accept", Join(accept2, ", "))
    ELSE _headers

ManifestExpectStatus(args) ==
    IF args.followRedirects = "false" THEN {200, 301, 302, 307} ELSE {200}

(* the request of listTags, getManifest or deleteManifest *)
OperationRequest(op, args) ==
    CASE op = "listTags" ->
            Request(op, "GET", _url \o "/v2/" \o RemoteName \o "/tags/list",
                    <<>>, RequestHeaders(_headers, "application/json",
                                         DEFAULT_USERAGENT))
      [] op = "getManifest" ->
            Request(op, "GET", _url \o "/v2/" \o RemoteName \o "/manifests/ref",
                    <<>>, RequestHeaders(ManifestHeaders(args), "application/json",
                                         DEFAULT_USERAGENT))
      [] op = "deleteManifest" ->
            Request(op, "DELETE",
                    _url \o "/v2/" \o RemoteName \o "/manifests/ref",
                    <<>>, RequestHeaders(_headers, "application/json",
                                         DEFAULT_USERAGENT))

(* SendRequest with a getManifest that sets its Accept header on
   this._headers instead of a copy *)
SendRequestOnDefaultHeaders(c) ==
    /\ calls[c].pc = "authed"
    /\ calls[c].op \in {"listTags", "getManifest", "deleteManifest"}
    /\ calls' = [calls EXCEPT
          ![c].pc = calls[c].op,
          ![c].reqs = Append(calls[c].reqs,
                             OperationRequest(calls[c].op, calls[c].args))]
    /\ _headers' = IF calls[c].op = "getManifest"
                   THEN ManifestHeaders(calls[c].args) ELSE _headers
    /\ UNCHANGED <<opts, repoVars, streamVars, parserVars, _loggedIn,
                   _loggedInScope, _authInfo>>

(* listTags, getManifest, deleteManifest after `await this.login()`: the
   request is sent *)
SendRequest(c) ==
    /\ calls[c].pc = "authed"
    /\ calls[c].op \in {"listTags", "getManifest", "deleteManifest"}
    /\ calls' = [calls EXCEPT
          ![c].pc = calls[c].op,
          ![c].reqs = Append(calls[c].reqs,
                             OperationRequest(calls[c].op, calls[c].args))]
    /\ UNCHANGED <<opts, repoVars, streamVars, parserVars, clientVars>>

(* resp.dockerJson() at the end of listTags and deleteManifest *)
AfterJson(call, resp, kind) ==
    IF ~resp.decodeOk THEN Failed(call, "body could not be decoded", 0)
    ELSE IF resp.json = "invalid" THEN Failed(call, "Invalid JSON in response", 0)
    ELSE [call EXCEPT !.pc = "done", !.ret = Returned(kind, resp.status, NoManifest)]

ListTagsAfterResponse(call, resp) ==
    IF resp.status \notin {200} THEN UnexpectedStatus(call, resp)
    ELSE AfterJson(call, resp, IF resp.json = "empty" THEN "undefined" ELSE "json")

(* the response to the request of listTags arrives, one of responses *)
ListTagsResponseOf(c, responses) ==
    /\ calls[c].pc = "listTags"
    /\ \E resp \in responses :
        calls' = [calls EXCEPT ![c] = ListTagsAfterResponse(calls[c], resp)]
    /\ UNCHANGED <<opts, repoVars, streamVars, parserVars, clientVars>>

(* the response to the request of listTags arrives *)
ListTagsResponse(c) == ListTagsResponseOf(c, JsonResponses)

DeleteManifestAfterResponse(call, resp) ==
    IF resp.status \notin {200, 202} THEN UnexpectedStatus(call, resp)
    ELSE AfterJson(call, resp, "void")

(* the response to the request of deleteManifest arrives *)
DeleteManifestResponse(c) ==
    /\ calls[c].pc = "deleteManifest"
    /\ \E resp \in JsonResponses :
        calls' = [calls EXCEPT ![c] = DeleteManifestAfterResponse(calls[c], resp)]
    /\ UNCHANGED <<opts, repoVars, streamVars, parserVars, clientVars>>

(* the verification that lets every manifest pass *)
VerifyManifestUnchecked(call, resp, manifest) ==
    [call EXCEPT !.pc = "done", !.ret = Returned("manifest", resp.status, manifest)]

(* getManifest: "Verify the manifest contents" *)
VerifyManifest(call, resp, manifest) ==
    IF manifest.mediaType = MEDIATYPE_MANIFEST_LIST_V2
    THEN IF manifest.manifests < 1
         THEN Failed(call, "no manifests in manifest list", 0)
         ELSE [call EXCEPT !.pc = "done",
                           !.ret = Returned("manifest", resp.status, manifest)]
    ELSE IF manifest.schemaVersion = 1
            /\ (manifest.fsLayers = -1 \/ manifest.history = -1)
    THEN Failed(call, "TypeError", 0)
    ELSE IF manifest.schemaVersion = 1 /\ manifest.fsLayers # manifest.history
    THEN Failed(call, "history length not equal to layers length", 0)
    ELSE LET layers == IF manifest.schemaVersion = 2 THEN manifest.layers
                       ELSE manifest.fsLayers
         IN  IF layers < 1
             THEN Failed(call, "no layers in manifest", 0)
             ELSE [call EXCEPT !.pc = "done",
                               !.ret = Returned("manifest", resp.status, manifest)]

NotFound401 == "Docker registry 401 Not Found: "

(* the catch of getManifest that hands every error on as it is *)
ManifestCatchRethrows(thrown) == thrown

(* the catch on the request of getManifest: an error that carries a response
   of status 401 becomes a new error, without a response, whose text ends
   with _getRegistryErrorMessage(err), the message of the error caught;
   every other error is thrown again *)
ManifestCatch(thrown) ==
    IF thrown.errStatus = 401
    THEN Failed(thrown,
                NotFound401 \o _getRegistryErrorMessage(
                    ErrorJson(NoBodyProp, NoErrorList, "", thrown.err)).msg,
                0)
    ELSE thrown

(* SchemaSupported without the test: every schema version is taken *)
SchemaSupportedAlways(manifest, args) == TRUE

(* getManifest: the manifest is not one of which
   manifest.schemaVersion > maxSchemaVersion *)
SchemaSupported(manifest, args) ==
    ~(manifest.schemaVersion > EffectiveMaxSchemaVersion(args))

(* getManifest from the answer to its request on *)
GetManifestAfterResponse(call, resp) ==
    IF resp.status \notin ManifestExpectStatus(call.args)
    THEN ManifestCatch(UnexpectedStatus(call, resp))
    ELSE IF resp.status > 300 /\ resp.status < 400
    THEN [call EXCEPT !.pc = "done",
                      !.ret = Returned("redirect", resp.status, NoManifest)]
    ELSE IF ~resp.decodeOk THEN Failed(call, "body could not be decoded", 0)
    ELSE IF resp.json = "invalid" THEN Failed(call, "Invalid JSON in response", 0)
    ELSE IF resp.json = "empty" THEN Failed(call, "TypeError", 0)
    ELSE LET known == [call EXCEPT !.got = resp.manifest]
         IN  IF ~SchemaSupported(resp.manifest, call.args)
             THEN Failed(known, "unsupported schema version", 0)
             ELSE VerifyManifest(known, resp, resp.manifest)

(* the response to the request of getManifest arrives *)
GetManifestResponse(c) ==
    /\ calls[c].pc = "getManifest"
    /\ \E resp \in ManifestResponses :
        calls' = [calls EXCEPT ![c] = GetManifestAfterResponse(calls[c], resp)]
    /\ UNCHANGED <<opts, repoVars, streamVars, parserVars, clientVars>>

-----------------------------------------------------------------------------
(* _makeHttpRequest: the blob redirect loop                                *)

(* opts.maxRedirects ?? 3 *)
MaxRedirects == 3

BlobPath == "/v2/" \o RemoteName \o "/blobs/digest"

(* the request of one pass of the loop: req.client.request(...) with the
   client's accept set to '' *)
BlobRequest(method, req) ==
    Request("blob", method, req.origin \o req.path, <<>>,
            RequestHeaders(req.headers, "", DEFAULT_USERAGENT))

(* LoopHead that makes one pass more than maxRedirects *)
LoopHeadOnePassMore(call, method, maxRedirects) ==
    IF call.numRedirs <= maxRedirects
    THEN [call EXCEPT !.numRedirs = call.numRedirs + 1,
                      !.pc = "blob",
                      !.reqs = Append(call.reqs, BlobRequest(method, call.req))]
    ELSE Failed(call, "maximum number of redirects hit", 0)

(* the head of the while loop: one more request, or the error after it *)
LoopHead(call, method, maxRedirects) ==
    IF call.numRedirs < maxRedirects
    THEN [call EXCEPT !.numRedirs = call.numRedirs + 1,
                      !.pc = "blob",
                      !.reqs = Append(call.reqs, BlobRequest(method, call.req))]
    ELSE Failed(call, "maximum number of redirects hit", 0)

(* RedirectRequest that hands the headers of the last request on *)
RedirectRequestKeepsHeaders(location, req) ==
    LET loc == ResolveLocation(location, req.origin)
    IN  [origin |-> loc.origin, path |-> loc.path, headers |-> req.headers]

(* req = {client: new DockerJsonClient({url: loc.origin}), path, headers:
   new Headers} *)
RedirectRequest(location, req) ==
    LET loc == ResolveLocation(location, req.origin)
    IN  [origin |-> loc.origin, path |-> loc.path, headers |-> {}]

(* AfterBlobResponse that keeps only the latest response *)
AfterBlobResponseKeepsLast(call, resp, followRedirects) ==
    IF resp.status \notin {200, 302, 307}
    THEN UnexpectedStatus(call, resp)
    ELSE LET pushed == [call EXCEPT !.ress = <<resp>>]
         IN  IF ~followRedirects THEN [pushed EXCEPT !.pc = "blobReturned"]
             ELSE IF resp.status \notin {302, 307}
             THEN [pushed EXCEPT !.pc = "blobReturned"]
             ELSE IF resp.location = Null
             THEN [pushed EXCEPT !.pc = "blobReturned"]
             ELSE [pushed EXCEPT !.pc = "blobBody",
                                 !.req = RedirectRequest(resp.location, call.req)]

(* AfterBlobResponse without the test of the expected statuses *)
AfterBlobResponseAnyStatus(call, resp, followRedirects) ==
    LET pushed == [call EXCEPT !.ress = Append(call.ress, resp)]
    IN  IF ~followRedirects THEN [pushed EXCEPT !.pc = "blobReturned"]
        ELSE IF resp.status \notin {302, 307}
        THEN [pushed EXCEPT !.pc = "blobReturned"]
        ELSE IF resp.location = Null
        THEN [pushed EXCEPT !.pc = "blobReturned"]
        ELSE [pushed EXCEPT !.pc = "blobBody",
                            !.req = RedirectRequest(resp.location, call.req)]

(* the loop body from the answer to its request up to the await of
   resp.dockerBody() *)
AfterBlobResponse(call, resp, followRedirects) ==
    IF resp.status \notin {200, 302, 307}
    THEN UnexpectedStatus(call, resp)
    ELSE LET pushed == [call EXCEPT !.ress = Append(call.ress, resp)]
         IN  IF ~followRedirects THEN [pushed EXCEPT !.pc = "blobReturned"]
             ELSE IF resp.status \notin {302, 307}
             THEN [pushed EXCEPT !.pc = "blobReturned"]
             ELSE IF resp.location = Null
             THEN [pushed EXCEPT !.pc = "blobReturned"]
             ELSE [pushed EXCEPT !.pc = "blobBody",
                                 !.req = RedirectRequest(resp.location, call.req)]

(* AfterBlobBody without the read of the redirect's body *)
AfterBlobBodyUnread(call, method, maxRedirects) ==
    LoopHead(call, method, maxRedirects)

(* resp.dockerBody() of the redirect has ended: its body is read; then the
   next pass of the loop *)
AfterBlobBody(call, method, maxRedirects) ==
    LET n == Len(call.ress)
        read == [call EXCEPT !.ress[n].consumed = TRUE]
    IN  IF ~call.ress[n].decodeOk
        THEN Failed(read, "body could not be decoded", 0)
        ELSE LoopHead(read, method, maxRedirects)

(* _headOrGetBlob after `await this.login()`: _makeHttpRequest up to its
   first request *)
BlobStart(c) ==
    /\ calls[c].pc = "authed"
    /\ calls[c].op = "headBlob"
    /\ calls' = [calls EXCEPT ![c] =
          LoopHead([calls[c] EXCEPT
                       !.req = [origin |-> _url, path |-> BlobPath,
                                headers |-> _headers],
                       !.numRedirs = 0, !.ress = <<>>],
                   "HEAD", MaxRedirects)]
    /\ UNCHANGED <<opts, repoVars, streamVars, parserVars, clientVars>>

(* the response to a request of the loop arrives, one of responses *)
BlobResponseArrivesOf(c, responses) ==
    /\ calls[c].pc = "blob"
    /\ \E resp \in responses :
        calls' = [calls EXCEPT ![c] = AfterBlobResponse(calls[c], resp, TRUE)]
    /\ UNCHANGED <<opts, repoVars, streamVars, parserVars, clientVars>>

(* the response to a request of the loop arrives *)
BlobResponseArrives(c) ==
    BlobResponseArrivesOf(c, BlobResponses(calls[c].numRedirs))

(* the body of a redirect response has been read *)
BlobBodyRead(c) ==
    /\ calls[c].pc = "blobBody"
    /\ calls' = [calls EXCEPT ![c] = AfterBlobBody(calls[c], "HEAD", MaxRedirects)]
    /\ UNCHANGED <<opts, repoVars, streamVars, parserVars, clientVars>>

(* headBlob after `await this._headOrGetBlob(...)`: the body of the last
   response is read and the responses are returned *)
HeadBlobReturn(c) ==
    /\ calls[c].pc = "blobReturned"
    /\ calls' = [calls EXCEPT
          ![c].ress[Len(calls[c].ress)].consumed = TRUE,
          ![c].pc = "done",
          ![c].ret = Returned("responses", calls[c].ress[Len(calls[c].ress)].status,
                              NoManifest)]
    /\ UNCHANGED <<opts, repoVars, streamVars, parserVars, clientVars>>

-----------------------------------------------------------------------------
(* RegistryClientV2.ping                                                   *)

(* StartPing that sends the default headers of the client *)
StartPingWithClientHeaders(c) ==
    /\ FirstFree(c)
    /\ calls' = [calls EXCEPT ![c] =
          [IdleCall EXCEPT !.op = "ping", !.pc = "pingOp", !.pre = ClientState,
                           !.reqs = <<[PingRequest EXCEPT !.headers =
                               RequestHeaders(_headers, "application/json",
                                              DEFAULT_USERAGENT)]>>]]
    /\ UNCHANGED <<opts, repoVars, streamVars, parserVars, clientVars>>

(* client.ping() is called: ping() up to its request *)
StartPing(c) ==
    /\ FirstFree(c)
    /\ calls' = [calls EXCEPT ![c] =
          [IdleCall EXCEPT !.op = "ping", !.pc = "pingOp", !.pre = ClientState,
                           !.reqs = <<PingRequest>>]]
    /\ UNCHANGED <<opts, repoVars, streamVars, parserVars, clientVars>>

(* ping() from the answer to its request on: the test of the status, then
   resp.dockerBody() *)
PingAfterResponse(call, res) ==
    IF res.status \notin {200, 401, 404}
    THEN UnexpectedStatus(call, [status |-> res.status, decodeOk |-> res.bodyOk,
                                 html |-> FALSE])
    ELSE IF ~res.bodyOk
    THEN Failed(call, "ping body could not be decoded", 0)
    ELSE [call EXCEPT !.pc = "done",
                      !.ret = Returned("response", res.status, NoManifest)]

(* the response to the GET /v2/ of client.ping() arrives *)
PingOpResponse(c) ==
    /\ calls[c].pc = "pingOp"
    /\ \E res \in PingResponses :
        calls' = [calls EXCEPT ![c] = PingAfterResponse(calls[c], res)]
    /\ UNCHANGED <<opts, repoVars, streamVars, parserVars, clientVars>>

(* Docker-Distribution-Api-Version header values, as sequences of
   characters; the empty sequence is a header that is absent or empty *)
ApiV2 == <<"r","e","g","i","s","t","r","y","/","2",".","0">>
ApiV1 == <<"r","e","g","i","s","t","r","y","/","1",".","0">>
ApiV1V2 == <<"r","e","g","i","s","t","r","y","/","1",".","0",","," ","r","e","g","i","s","t","r","y","/","2",".","0">>
ApiV2Tab == <<"r","e","g","i","s","t","r","y","/","2",".","0","	","x">>
ApiV201 == <<"r","e","g","i","s","t","r","y","/","2",".","0","1">>

ApiVersionHeaders == {NoHeader, ApiV2, ApiV1, ApiV1V2, ApiV2Tab, ApiV201}

(* a response to the GET /v2/ of supportsV2() *)
SupportsV2Responses ==
    [status : {200, 401, 404, 500}, wwwAuth : {NoHeader}, bodyOk : BOOLEAN,
     apiVersion : ApiVersionHeaders]

(* header.split(/[\s,]+/g): the pieces between the runs of blanks and commas;
   cur is the piece being read, inSep says the last character was one of a
   run *)
RECURSIVE SplitVersions(_, _, _)
SplitVersions(cs, cur, inSep) ==
    IF cs = <<>> THEN <<cur>>
    ELSE IF IsSpaceChar(Head(cs)) \/ Head(cs) = ","
         THEN IF inSep THEN SplitVersions(Tail(cs), <<>>, TRUE)
              ELSE <<cur>> \o SplitVersions(Tail(cs), <<>>, TRUE)
         ELSE SplitVersions(Tail(cs), Append(cur, Head(cs)), FALSE)

(* versions.indexOf('registry/2.0') !== -1 *)
HasRegistryV2(header) ==
    LET versions == SplitVersions(header, <<>>, FALSE)
    IN  \E i \in 1..Len(versions) : Str(versions[i]) = "registry/2.0"

(* supportsV2 that looks at the status only *)
SupportsV2AfterPingStatusOnly(call, pinged, res) ==
    IF pinged.pc = "failed"
    THEN IF pinged.errStatus # 0
         THEN [call EXCEPT !.pc = "done", !.rejected = pinged.rejected,
                           !.ponged.err = pinged.err,
                           !.ponged.errStatus = pinged.errStatus,
                           !.ret = Returned("false", 0, NoManifest)]
         ELSE [pinged EXCEPT !.ponged.err = pinged.err]
    ELSE [call EXCEPT !.pc = "done",
            !.ponged.status = res.status, !.ponged.apiVersion = res.apiVersion,
            !.ret = Returned(IF res.status \in {200, 401} THEN "true" ELSE "false",
                             0, NoManifest)]

(* supportsV2() from the end of its ping() on; pinged is the call as ping()
   left it for the response res: the error with a response gives false, the
   error without one is thrown again, and a response gives true for the
   version token in its header or for the status 200 or 401 *)
SupportsV2AfterPing(call, pinged, res) ==
    IF pinged.pc = "failed"
    THEN IF pinged.errStatus # 0
         THEN [call EXCEPT !.pc = "done", !.rejected = pinged.rejected,
                           !.ponged.err = pinged.err,
                           !.ponged.errStatus = pinged.errStatus,
                           !.ret = Returned("false", 0, NoManifest)]
         ELSE [pinged EXCEPT !.ponged.err = pinged.err]
    ELSE [call EXCEPT !.pc = "done",
            !.ponged.status = res.status, !.ponged.apiVersion = res.apiVersion,
            !.ret = Returned(IF \/ (res.apiVersion # <<>> /\ HasRegistryV2(res.apiVersion))
                                \/ res.status \in {200, 401}
                             THEN "true" ELSE "false", 0, NoManifest)]

(* a call of client.supportsV2() begins: it calls ping() *)
StartSupportsV2(c) ==
    /\ FirstFree(c)
    /\ calls' = [calls EXCEPT ![c] =
          [IdleCall EXCEPT !.op = "supportsV2", !.pc = "supportsV2",
                           !.pre = ClientState, !.reqs = <<PingRequest>>]]
    /\ UNCHANGED <<opts, repoVars, streamVars, parserVars, clientVars>>

(* the response to the GET /v2/ of supportsV2() arrives *)
SupportsV2Response(c) ==
    /\ calls[c].pc = "supportsV2"
    /\ \E res \in SupportsV2Responses :
        calls' = [calls EXCEPT ![c] =
            SupportsV2AfterPing(calls[c], PingAfterResponse(calls[c], res), res)]
    /\ UNCHANGED <<opts, repoVars, streamVars, parserVars, clientVars>>

(* the caller takes the result of a call that has ended; the slot is free *)
Finish(c) ==
    /\ calls[c].pc \in {"done", "failed"}
    /\ calls' = [calls EXCEPT ![c] = IdleCall]
    /\ UNCHANGED <<opts, repoVars, streamVars, parserVars, clientVars>>

(* a caller that awaits every call before it makes the next one *)
Next ==
    \E c \in Calls :
        \/ NoCallInFlight /\ StartLogin(c)
        \/ NoCallInFlight /\ StartOperation(c)
        \/ NoCallInFlight /\ StartPing(c)
        \/ NoCallInFlight /\ StartSupportsV2(c)
        \/ PingOpResponse(c)
        \/ SupportsV2Response(c)
        \/ PingResponse(c)
        \/ TokenResponse(c)
        \/ LoginComplete(c)
        \/ SendRequest(c)
        \/ ListTagsResponse(c)
        \/ GetManifestResponse(c)
        \/ DeleteManifestResponse(c)
        \/ BlobStart(c)
        \/ BlobResponseArrives(c)
        \/ BlobBodyRead(c)
        \/ HeadBlobReturn(c)
        \/ Finish(c)

Spec == Init /\ [][Next]_vars

-----------------------------------------------------------------------------
(* Calls that overlap: callers that do not wait for a call to end before
   they make the next one, against a registry that asks for a Bearer token *)

(* GET /v2/ is answered with 401 and a Bearer challenge *)
BearerPingResponses ==
    {[status |-> 401, wwwAuth |-> HdrBearer, bodyOk |-> TRUE]}

(* the token endpoint hands out one of two tokens, or answers 401 *)
BearerTokenResponses ==
    {r \in TokenResponses :
        /\ r.body.json = "object"
        /\ \/ r.status = 200 /\ r.body.tokenType = "string"
                             /\ r.body.token \in {"tA", "tB"}
           \/ r.status = 401 /\ r.errJson = ErrorsShape}

(* the tags are listed *)
OkJsonResponses == {OpResponse(200, TRUE, "value", FALSE, FALSE, NoManifest)}

(* the blob is there *)
OkBlobResponses(reqNo) == {BlobResponse(reqNo, 200, Null, TRUE, FALSE)}

(* the operations of the overlapping calls *)
OverlapOperations == {"listTags", "headBlob"}

(* a client constructed without credentials *)
InitConc ==
    /\ Init
    /\ opts.username = "" /\ opts.password = "" /\ opts.token = ""
    /\ opts.maxSchemaVersion = 0 /\ ~opts.acceptManifestLists

NextConc ==
    \E c \in Calls :
        \/ \E scopeArg \in ScopeArgs :
              EnterLogin(c, "login", NoArgs, scopeArg,
                         [given |-> FALSE, wwwAuth |-> NoHeader])
        \/ \E op \in OverlapOperations :
              EnterLogin(c, op, NoArgs, "", [given |-> FALSE, wwwAuth |-> NoHeader])
        \/ PingResponseOf(c, BearerPingResponses)
        \/ TokenResponseOf(c, BearerTokenResponses)
        \/ LoginComplete(c)
        \/ SendRequest(c)
        \/ ListTagsResponseOf(c, OkJsonResponses)
        \/ BlobStart(c)
        \/ BlobResponseArrivesOf(c, OkBlobResponses(calls[c].numRedirs))
        \/ HeadBlobReturn(c)
        \/ Finish(c)

SpecConc == InitConc /\ [][NextConc]_vars

-----------------------------------------------------------------------------
(* headBlob calls, one after the other, on a registry that asks for no
   login and answers every request of the blob loop, with whatever status
   and Location; the body of a redirect that is being read comes to its end *)

OpenPingResponses == {[status |-> 200, wwwAuth |-> NoHeader, bodyOk |-> TRUE]}

NextBlob ==
    \E c \in Calls :
        \/ NoCallInFlight
              /\ EnterLogin(c, "headBlob", NoArgs, "",
                            [given |-> FALSE, wwwAuth |-> NoHeader])
        \/ PingResponseOf(c, OpenPingResponses)
        \/ LoginComplete(c)
        \/ BlobStart(c)
        \/ BlobResponseArrives(c)
        \/ BlobBodyRead(c)
        \/ HeadBlobReturn(c)
        \/ Finish(c)

(* the server answers, and a body that is read ends *)
FairBlob ==
    \A c \in Calls : WF_vars(BlobResponseArrives(c)) /\ WF_vars(BlobBodyRead(c))

SpecBlob == InitConc /\ [][NextBlob]_vars /\ FairBlob

-----------------------------------------------------------------------------
(* Clients made from a repo object of the caller: any index, with or
   without a scheme option; no credentials                                  *)

InitRepo ==
    /\ Constructed(Givens)
    /\ InitClient
    /\ challenge = NoChallenge /\ parsed = NotParsed
    /\ stream = NoStream
    /\ opts.username = "" /\ opts.password = "" /\ opts.token = ""
    /\ opts.maxSchemaVersion = 0 /\ ~opts.acceptManifestLists

SpecRepo == InitRepo /\ [][Next]_vars

-----------------------------------------------------------------------------
(* The parser on headers that are well formed: a scheme, a blank, and pairs
   key=value or key="value" with commas between them                        *)

MaxPairs == 2

(* a pair of a header: the value as it is meant, whether it is written in
   quotes, and whether a blank follows the comma before the pair *)
Pair(key, value, quoted, blank) ==
    [key |-> key, value |-> value, quoted |-> quoted, blank |-> blank]

ChallengeSchemes == {<<"B","e","a","r","e","r">>, <<"B","_","2">>}

ChallengeKeys == {<<"r","e","a","l","m">>, <<"s","e","r","v","i","c","e">>, <<"k">>}

BareValues == {<<"v">>, <<"x","1">>}

(* values that need quotes: empty, with a blank, with a comma and an equal
   sign, a quote inside, a quote alone *)
QuotedValues == {<<>>, <<"a"," ","b">>, <<"a",",","k","=","v">>, <<"a","\"","b">>, <<"\"">>}

Pairs ==
    {Pair(k, v, FALSE, b) : k \in ChallengeKeys, v \in BareValues, b \in BOOLEAN}
    \cup {Pair(k, v, TRUE, b) : k \in ChallengeKeys, v \in QuotedValues,
                                b \in BOOLEAN}

(* the headers: a scheme and one to MaxPairs pairs with different keys; the
   first pair follows the blank after the scheme *)
WellFormedChallenges ==
    {ch \in [scheme : ChallengeSchemes,
             pairs : UNION {[1..n -> Pairs] : n \in 1..MaxPairs}] :
        /\ ~ch.pairs[1].blank
        /\ \A i, j \in 1..Len(ch.pairs) :
              i # j => ch.pairs[i].key # ch.pairs[j].key}

(* a value between quotes: every quote in it is written twice *)
RECURSIVE Quoted(_)
Quoted(cs) ==
    IF cs = <<>> THEN <<>>
    ELSE (IF Head(cs) = "\"" THEN <<"\"", "\"">> ELSE <<Head(cs)>>) \o Quoted(Tail(cs))

PairText(p) ==
    (IF p.blank THEN <<" ">> ELSE <<>>) \o p.key \o <<"=">>
    \o (IF p.quoted THEN <<"\"">> \o Quoted(p.value) \o <<"\"">> ELSE p.value)

RECURSIVE PairsText(_)
PairsText(ps) ==
    IF ps = <<>> THEN <<>>
    ELSE PairText(Head(ps))
         \o (IF Tail(ps) = <<>> THEN <<>> ELSE <<",">> \o PairsText(Tail(ps)))

(* the text of a header *)
HeaderOf(ch) == ch.scheme \o <<" ">> \o PairsText(ch.pairs)

InitParse ==
    /\ Constructed({StandardGiven})
    /\ InitClient
    /\ opts.username = "" /\ opts.password = "" /\ opts.token = ""
    /\ opts.maxSchemaVersion = 0 /\ ~opts.acceptManifestLists
    /\ challenge \in WellFormedChallenges
    /\ parsed = NotParsed
    /\ stream = NoStream

(* new Parse_WWW_Authenticate(header) *)
ParseChallenge ==
    /\ parsed = NotParsed
    /\ parsed' = Parse_WWW_Authenticate(HeaderOf(challenge))
    /\ UNCHANGED <<opts, repoVars, streamVars, challenge, clientVars, calls>>

NextParse == ParseChallenge

SpecParse == InitParse /\ [][NextParse]_vars

-----------------------------------------------------------------------------
(* The parser on headers that are malformed: a scheme, a blank, pairs that
   are well formed, and then a text that breaks the grammar                 *)

(* what breaks the grammar: its kind and the text that ends the header *)
Fault(kind, text) == [kind |-> kind, text |-> text]

(* a key that is not followed by an equal sign: the header ends after it, a
   comma follows it, a quote follows it, a blank follows it *)
KeysWithoutEqual ==
    {Fault("noEqual", t) :
        t \in {<<"q">>, <<"q", ",", "x", "=", "v">>, <<"q", "\"", "v", "\"">>,
               <<"q", " ">>}}

(* a value that opens with a quote and is not closed before the header ends:
   with text, empty, and ending with a doubled quote *)
UnterminatedQuotes ==
    {Fault("unterminated", t) :
        t \in {<<"q", "=", "\"", "a", " ", "b">>, <<"q", "=", "\"">>,
               <<"q", "=", "\"", "a", "\"", "\"">>}}

(* a comma after the last pair: the header ends with it, or a blank follows *)
DanglingCommas == {Fault("danglingComma", t) : t \in {<<>>, <<" ">>}}

Faults == KeysWithoutEqual \cup UnterminatedQuotes \cup DanglingCommas

(* the headers: fewer than MaxPairs pairs with different keys, and a fault;
   a dangling comma has a pair before it *)
MalformedChallenges ==
    {ch \in [scheme : ChallengeSchemes,
             pairs : UNION {[1..n -> Pairs] : n \in 0..(MaxPairs - 1)},
             fault : Faults] :
        /\ (ch.pairs # <<>> => ~ch.pairs[1].blank)
        /\ \A i, j \in 1..Len(ch.pairs) :
              i # j => ch.pairs[i].key # ch.pairs[j].key
        /\ (ch.fault.kind = "danglingComma" => ch.pairs # <<>>)}

(* the text of a malformed header: a comma after the pairs, then the fault *)
MalformedHeaderOf(ch) ==
    ch.scheme \o <<" ">> \o PairsText(ch.pairs)
    \o (IF ch.pairs = <<>> THEN <<>> ELSE <<",">>) \o ch.fault.text

InitMalformed ==
    /\ Constructed({StandardGiven})
    /\ InitClient
    /\ opts.username = "" /\ opts.password = "" /\ opts.token = ""
    /\ opts.maxSchemaVersion = 0 /\ ~opts.acceptManifestLists
    /\ challenge \in MalformedChallenges
    /\ parsed = NotParsed
    /\ stream = NoStream

(* new Parse_WWW_Authenticate(header) on a malformed header *)
ParseMalformed ==
    /\ parsed = NotParsed
    /\ parsed' = Parse_WWW_Authenticate(MalformedHeaderOf(challenge))
    /\ UNCHANGED <<opts, repoVars, streamVars, challenge, clientVars, calls>>

NextMalformed == ParseMalformed

SpecMalformed == InitMalformed /\ [][NextMalformed]_vars

-----------------------------------------------------------------------------
(* Blob downloads: createBlobReadStream from the responses of its GET on,
   and the stream it hands out                                              *)

Chunks == {<<0>>, <<1>>, <<0, 1>>}

Sources == UNION {[1..n -> Chunks] : n \in 0..MaxChunks}

RequestedDigests == {DigestOf(<<<<0, 1>>>>), DigestOf(<<<<1>>>>)}

(* the header: absent, a digest, no colon, another algorithm *)
DigestHeaders ==
    {<<>>} \cup RequestedDigests \cup {Sha256, <<"m", "d", "5", ":", "0", "5">>}

(* the responses: the blob itself, or a redirect and then the blob *)
StreamResponses ==
    {<<StreamResponse(200, d)>> : d \in DigestHeaders}
    \cup {<<StreamResponse(307, d), StreamResponse(200, e)>> :
            d \in DigestHeaders, e \in {<<>>, DigestOf(<<<<1>>>>)}}

InitStream ==
    /\ Constructed({StandardGiven})
    /\ InitClient
    /\ opts.username = "" /\ opts.password = "" /\ opts.token = ""
    /\ opts.maxSchemaVersion = 0 /\ ~opts.acceptManifestLists
    /\ challenge = NoChallenge /\ parsed = NotParsed
    /\ stream \in {Download(d, r, s) : d \in RequestedDigests,
                                       r \in StreamResponses, s \in Sources}

(* createBlobReadStream returns or throws *)
CreateBlobReadStream ==
    /\ stream.pc = "responded"
    /\ LET made == createBlobReadStream(stream.ress, stream.digest)
       IN  stream' = IF made.err # Null
                     THEN [stream EXCEPT !.pc = "failed", !.err = made.err]
                     ELSE [stream EXCEPT !.pc = "streaming",
                                         !.validated = made.validated,
                                         !.expected = made.expected]
    /\ UNCHANGED <<opts, repoVars, parserVars, clientVars, calls>>

(* the next chunk of the last response goes through the stream *)
StreamChunk ==
    /\ stream.pc = "streaming"
    /\ stream.read < Len(stream.source)
    /\ stream' = ValidatorTransform(stream, stream.source[stream.read + 1])
    /\ UNCHANGED <<opts, repoVars, parserVars, clientVars, calls>>

(* the last response has no more chunks *)
StreamEnd ==
    /\ stream.pc = "streaming"
    /\ stream.read = Len(stream.source)
    /\ stream' = ValidatorFlush(stream)
    /\ UNCHANGED <<opts, repoVars, parserVars, clientVars, calls>>

NextStream == CreateBlobReadStream \/ StreamChunk \/ StreamEnd

SpecStream == InitStream /\ [][NextStream]_vars

-----------------------------------------------------------------------------
(* Properties                                                              *)

(* the requests of a call that belong to its login: GET /v2/ and the token
   request *)
LoginRequests(call) ==
    SelectSeq(call.reqs, LAMBDA r : r.kind \in {"ping", "token"})

(* the requests of a call that carry out its operation *)
OperationRequests(call) ==
    SelectSeq(call.reqs, LAMBDA r : r.kind \notin {"ping", "token"})

BlobRequests(call) == SelectSeq(call.reqs, LAMBDA r : r.kind = "blob")

Authorization(headers) == HeadersGet(headers, "authorization")

IsRedirect(resp) == resp.status \in {302, 307}

(* C1: a call whose login scope is the scope the client was already logged
   in for is a cache hit: it sends no ping and no token request and the
   login flag, scope, credential and headers stay what they were; a login
   call is then over at once. *)
C1_SameScopeNoOp ==
    \A c \in Calls :
        LET call == calls[c]
        IN  (call.pc # "idle" /\ call.pre.loggedIn /\ call.pre.scope = call.scope)
            => /\ call.hit
               /\ LoginRequests(call) = <<>>
               /\ ClientState = call.pre
               /\ (call.op = "login" => call.pc = "done" /\ call.reqs = <<>>)

(* C1 witness: a login call that was a cache hit on a client that holds an
   Authorization header. *)
C1_Witness ==
    \E c \in Calls :
        /\ calls[c].op = "login" /\ calls[c].pc = "done" /\ calls[c].hit
        /\ calls[c].pre.loggedIn /\ calls[c].pre.scope = calls[c].scope
        /\ calls[c].scope = ScopePush
        /\ Authorization(_headers) = "Bearer tA"

(* C2: a login call for a scope other than the one the client is logged in
   for is no cache hit: it starts with the ping unless pingRes brought a
   challenge, a Bearer credential comes from a token request that carries
   the new scope, and when the call is over the cached scope is the new one
   and the cached credential the one this login obtained. *)
C2_OtherScopeLogsInAgain ==
    \A c \in Calls :
        LET call == calls[c]
        IN  (call.op = "login" /\ call.pre.loggedIn /\ call.pre.scope # call.scope)
            => /\ ~call.hit
               /\ (call.chal = NoHeader =>
                     call.reqs # <<>> /\ call.reqs[1].kind = "ping")
               /\ (call.pc = "done" =>
                     /\ _loggedIn
                     /\ _loggedInScope = call.scope
                     /\ _authInfo = call.result
                     /\ (call.result.type = "bearer" =>
                           /\ call.reqs # <<>>
                           /\ call.reqs[Len(call.reqs)].kind = "token"
                           /\ \E i \in DOMAIN call.reqs[Len(call.reqs)].query :
                                call.reqs[Len(call.reqs)].query[i]
                                    = <<"scope", call.scope>>))

(* C2 witness: logged in for pull with one token, then logged in for
   pull,push with another token, after a ping and a token request. *)
C2_Witness ==
    \E c \in Calls :
        /\ calls[c].op = "login" /\ calls[c].pc = "done"
        /\ calls[c].pre.loggedIn /\ calls[c].pre.scope = ScopePull
        /\ calls[c].pre.authInfo = AuthInfo("bearer", "", "", "tA")
        /\ calls[c].scope = ScopePush
        /\ Len(calls[c].reqs) = 2
        /\ _authInfo = AuthInfo("bearer", "", "", "tB")

(* the Authorization header the claim C3 gives for a credential *)
HeaderByType(authInfo) ==
    CASE authInfo.type = "bearer" -> "Bearer " \o authInfo.token
      [] authInfo.type = "basic" ->
            "Basic " \o Btoa(authInfo.username \o ":" \o authInfo.password)
      [] OTHER -> Null

(* the Authorization header of the amended claim C3 *)
HeaderByContent(authInfo) ==
    CASE authInfo.type = "bearer" /\ authInfo.token # "" ->
            "Bearer " \o authInfo.token
      [] authInfo.type = "basic"
           /\ (authInfo.username # "" \/ authInfo.password # "") ->
            "Basic " \o Btoa(authInfo.username \o ":" \o authInfo.password)
      [] OTHER -> Null

(* C3 as stated: after a login call that logged in, the client is logged in
   for the call's scope with the credential of this login, and the
   Authorization header is Bearer <token> for a Bearer credential, Basic
   base64(username:password) for a Basic one and absent for None. *)
C3_HeaderByCredentialType ==
    \A c \in Calls :
        LET call == calls[c]
        IN  (call.op = "login" /\ call.pc = "done" /\ ~call.hit)
            => /\ _loggedIn
               /\ _loggedInScope = call.scope
               /\ _authInfo = call.result
               /\ Authorization(_headers) = HeaderByType(_authInfo)

(* C3 amended: as C3, but the header is Bearer <token> only for a Bearer
   credential whose token is not empty, Basic base64(username:password) only
   for a Basic credential with a username or a password, and absent in every
   other case. *)
C3_HeaderByCredentialContent ==
    \A c \in Calls :
        LET call == calls[c]
        IN  (call.op = "login" /\ call.pc = "done")
            => /\ _loggedIn
               /\ _loggedInScope = call.scope
               /\ (~call.hit => _authInfo = call.result)
               /\ Authorization(_headers) = HeaderByContent(_authInfo)

(* C3 witness: a client constructed with a token and no user logs in with a
   Basic challenge; the header of the constructor is gone. *)
C3_Witness ==
    \E c \in Calls :
        /\ calls[c].op = "login" /\ calls[c].pc = "done" /\ ~calls[c].hit
        /\ calls[c].result.type = "basic"
        /\ Authorization(calls[c].pre.headers) = "Bearer t0"
        /\ Authorization(_headers) = Null

(* C4: when the login step of a call has failed, the login flag, the scope,
   the credential and the headers are what they were when the call began,
   and the scope of the call is not cached: a later login for it logs in
   again. *)
C4_FailedLoginChangesNothing ==
    \A c \in Calls :
        LET call == calls[c]
        IN  (call.pc = "failed" /\ ~call.loginDone)
            => /\ ClientState = call.pre
               /\ ~LoginCached(call.scope)

(* C4 witness: a client logged in for one scope fails to log in for another
   one with a 401 of the token endpoint. *)
C4_Witness ==
    \E c \in Calls :
        /\ calls[c].pc = "failed" /\ ~calls[c].loginDone
        /\ calls[c].err = AuthFailed \o ServerMessage
        /\ calls[c].pre.loggedIn
        /\ Authorization(_headers) # Null

(* C5: an operation sends its own request only when its login step has
   succeeded, and after every request of the login; when the login step
   fails the operation fails with an error and has sent no request of its
   own. *)
C5_RequestAfterLogin ==
    \A c \in Calls :
        LET call == calls[c]
        IN  call.op \in Operations
            => /\ (OperationRequests(call) # <<>> => call.loginDone)
               /\ \A i, j \in DOMAIN call.reqs :
                     (call.reqs[i].kind \in {"ping", "token"}
                        /\ call.reqs[j].kind \notin {"ping", "token"}) => i < j
               /\ (~call.loginDone /\ call.pc \notin {"ping", "token", "loginReturned"}
                     => /\ call.pc = "failed"
                        /\ call.err # Null
                        /\ OperationRequests(call) = <<>>)

(* C5 witness: a deleteManifest call whose login failed at the token
   endpoint. *)
C5_Witness ==
    \E c \in Calls :
        /\ calls[c].op = "deleteManifest" /\ calls[c].pc = "failed"
        /\ ~calls[c].loginDone
        /\ Len(calls[c].reqs) = 2

(* C6: in the blob loop the first request carries the Authorization header
   of the client, and every later request, to whatever origin, carries the
   User-Agent header alone. *)
C6_NoAuthorizationOnRedirects ==
    \A c \in Calls :
        LET blobs == BlobRequests(calls[c])
        IN  \A i \in DOMAIN blobs :
              IF i = 1
              THEN Authorization(blobs[i].headers) = Authorization(_headers)
              ELSE blobs[i].headers = {<<"user-agent", DEFAULT_USERAGENT>>}

(* C6 witness: three requests of one headBlob call, the first with the
   Authorization header, the second to the registry's own origin. *)
C6_Witness ==
    \E c \in Calls :
        LET blobs == BlobRequests(calls[c])
        IN  /\ Len(blobs) = 3
            /\ Authorization(blobs[1].headers) = "Bearer tA"
            /\ blobs[2].url = RegistryUrl \o LocPath
            /\ blobs[3].url = LocCdn

(* C7: the blob loop fails with the error of the maximum number of
   redirects only when more than 3 redirect responses have come in. *)
C7_ThreeRedirectsFollowed ==
    \A c \in Calls :
        calls[c].err = "maximum number of redirects hit"
            => Len(calls[c].ress) > 3

(* C8: the list headBlob returns is not empty, holds the response to every
   request in the order of the requests, all of them but the last are 302 or
   307 responses with a Location header, and the last one is not. *)
C8_ResponseList ==
    \A c \in Calls :
        LET call == calls[c]
        IN  (call.op = "headBlob" /\ call.pc = "done")
            => /\ call.ress # <<>>
               /\ Len(call.ress) = Len(BlobRequests(call))
               /\ \A i \in DOMAIN call.ress : call.ress[i].reqNo = i
               /\ \A i \in 1..(Len(call.ress) - 1) :
                     IsRedirect(call.ress[i]) /\ call.ress[i].location # Null
               /\ ~(IsRedirect(call.ress[Len(call.ress)])
                      /\ call.ress[Len(call.ress)].location # Null)

(* C8 witness: headBlob returns three responses. *)
C8_Witness ==
    \E c \in Calls :
        /\ calls[c].op = "headBlob" /\ calls[c].pc = "done"
        /\ Len(calls[c].ress) = 3

(* C9 as stated: the last response of the list headBlob returns has status
   200. *)
C9_LastIs200 ==
    \A c \in Calls :
        (calls[c].op = "headBlob" /\ calls[c].pc = "done")
            => calls[c].ress[Len(calls[c].ress)].status = 200

(* C9 amended: the last response of the list headBlob returns has status
   200, or is a 302 or 307 response without a Location header. *)
C9_LastIs200OrRedirectWithoutLocation ==
    \A c \in Calls :
        LET call == calls[c]
        IN  (call.op = "headBlob" /\ call.pc = "done")
            => \/ call.ress[Len(call.ress)].status = 200
               \/ /\ IsRedirect(call.ress[Len(call.ress)])
                  /\ call.ress[Len(call.ress)].location = Null

(* C9 witness: headBlob returns a list that ends with a redirect without a
   Location header, after a redirect that was followed. *)
C9_Witness ==
    \E c \in Calls :
        /\ calls[c].op = "headBlob" /\ calls[c].pc = "done"
        /\ Len(calls[c].ress) = 2
        /\ calls[c].ress[2].status = 307
        /\ calls[c].ress[2].location = Null

(* C10: in the blob loop a request is sent only when every response so far
   has come in and its body has been read; when the loop fails with the
   error of the maximum number of redirects, the body of every response has
   been read. *)
C10_BodiesReadBeforeNextHop ==
    \A c \in Calls :
        LET call == calls[c]
        IN  /\ call.pc = "blob"
               => /\ Len(BlobRequests(call)) = Len(call.ress) + 1
                  /\ \A i \in DOMAIN call.ress : call.ress[i].consumed
            /\ call.pc # "blob" /\ call.op = "headBlob" /\ call.ress # <<>>
               => Len(BlobRequests(call)) \in {Len(call.ress), Len(call.ress) + 1}
            /\ call.err = "maximum number of redirects hit"
               => \A i \in DOMAIN call.ress : call.ress[i].consumed

(* C10 witness: the loop has failed with the error of the maximum number of
   redirects after three redirects. *)
C10_Witness ==
    \E c \in Calls :
        /\ calls[c].err = "maximum number of redirects hit"
        /\ Len(calls[c].ress) = 3

(* C11: when headBlob has returned or has failed, the body of every response
   to a request of the blob loop has been read: of the responses in the
   list, and of a response whose status was not expected. *)
C11_NoBodyLeftUnread ==
    \A c \in Calls :
        LET call == calls[c]
        IN  (call.op = "headBlob" /\ call.pc \in {"done", "failed"})
            => /\ \A i \in DOMAIN call.ress : call.ress[i].consumed
               /\ call.rejected.consumed

(* the step in which the login of call c completes *)
CompletesLogin(c) == calls[c].pc = "loginReturned" /\ calls'[c].loginDone

(* C12: with calls that overlap, every step that completes a login leaves
   the client logged in for the scope of that login, with its credential and
   the Authorization header made from it, and no other step changes any of
   them: whatever the interleaving, they all come from the login that
   completed last.  A login call that starts for the scope the client is
   logged in for ends at once and sends no request. *)
C12_LastLoginWins ==
    [][ /\ \A c \in Calls :
            CompletesLogin(c)
            => /\ _loggedIn'
               /\ _loggedInScope' = calls[c].scope
               /\ _authInfo' = calls[c].result
               /\ Authorization(_headers') = HeaderByContent(calls[c].result)
        /\ (\A c \in Calls : ~CompletesLogin(c)) => ClientState' = ClientState
        /\ \A c \in Calls :
            (calls[c].pc = "idle" /\ calls'[c].op = "login"
                /\ _loggedIn /\ calls'[c].scope = _loggedInScope)
            => calls'[c].pc = "done" /\ calls'[c].reqs = <<>>
      ]_vars

(* C12 witness: two login calls for different scopes that both started on a
   client that was not logged in have both completed, each with a token of
   its own, and the client holds scope, credential and header of one. *)
C12_Witness ==
    /\ calls[1].op = "login" /\ calls[2].op = "login"
    /\ calls[1].pc = "done" /\ calls[2].pc = "done"
    /\ ~calls[1].pre.loggedIn /\ ~calls[2].pre.loggedIn
    /\ calls[1].scope = ScopePull /\ calls[2].scope = ScopePush
    /\ calls[1].result.token = "tA" /\ calls[2].result.token = "tB"
    /\ _loggedInScope = ScopePull
    /\ _authInfo = calls[1].result
    /\ Authorization(_headers) = "Bearer tA"

(* the step in which call c sends the request of its operation *)
SendsOperationRequest(c) ==
    /\ calls[c].pc = "authed"
    /\ Len(OperationRequests(calls'[c])) = Len(OperationRequests(calls[c])) + 1

(* C13: with calls that overlap, a call sends the request of its operation
   only while the client is logged in for the scope of that call, and the
   Authorization header of the request is the one made from the credential
   the client holds for that scope. *)
C13_RequestCredentialForOwnScope ==
    [][ \A c \in Calls :
            SendsOperationRequest(c)
            => LET sent == OperationRequests(calls'[c])
               IN  /\ _loggedIn
                   /\ _loggedInScope = calls[c].scope
                   /\ Authorization(sent[Len(sent)].headers)
                        = HeaderByContent(_authInfo)
      ]_vars

(* the token requests of a call *)
TokenRequests(call) == SelectSeq(call.reqs, LAMBDA r : r.kind = "token")

(* C14: when ping() has returned a 200 response to a login, the login
   returns the None credential, whatever WWW-Authenticate header the
   response carries, the call sends no token request, and once the login
   step is over the client is logged in with that credential and has no
   Authorization header. *)
C14_Ping200IsNoAuth ==
    \A c \in Calls :
        LET call == calls[c]
        IN  call.pinged.status = 200
            => /\ call.result = AuthInfo("none", "", "", "")
               /\ TokenRequests(call) = <<>>
               /\ IF call.loginDone
                  THEN /\ _loggedIn /\ _loggedInScope = call.scope
                       /\ _authInfo = call.result
                       /\ Authorization(_headers) = Null
                  ELSE call.pc = "loginReturned"

(* C14 witness: a client that held a Bearer header has logged in again with
   a 200 answer to the ping, and the header is gone. *)
C14_Witness ==
    \E c \in Calls :
        /\ calls[c].op = "login" /\ calls[c].pc = "done"
        /\ calls[c].pinged.status = 200
        /\ Authorization(calls[c].pre.headers) = "Bearer tA"
        /\ Authorization(_headers) = Null

MissingHeaderError ==
    "missing WWW-Authenticate header in 401 response to \"GET /v2/\""

(* C15: when ping() has returned a 401 response without a WWW-Authenticate
   header, the call has failed with the error of the missing header, has
   sent no token request, and the client is as it was when the call began:
   not logged in for the scope of the call. *)
C15_MissingChallengeIsFatal ==
    \A c \in Calls :
        LET call == calls[c]
        IN  (call.pinged.status = 401 /\ call.pinged.chal = NoHeader)
            => /\ call.pc = "failed"
               /\ call.err = MissingHeaderError
               /\ ~call.loginDone
               /\ TokenRequests(call) = <<>>
               /\ ClientState = call.pre
               /\ ~LoginCached(call.scope)

(* C15 witness: a client logged in for one scope has failed to log in for
   another one with a 401 that has no WWW-Authenticate header. *)
C15_Witness ==
    \E c \in Calls :
        /\ calls[c].op = "login" /\ calls[c].pc = "failed"
        /\ calls[c].pinged.status = 401 /\ calls[c].pinged.chal = NoHeader
        /\ calls[c].pre.loggedIn /\ calls[c].pre.scope = ScopePull
        /\ calls[c].scope = ScopePush

(* the challenge header login() works with: the one that came with pingRes,
   or the one it read from the 401 answer to its ping *)
ChallengeOf(call) ==
    IF call.chal # NoHeader THEN call.chal ELSE call.pinged.chal

(* the scheme of a challenge header that parses without an error, "" for a
   header that is missing or does not parse *)
SchemeOf(header) ==
    IF header = NoHeader THEN ""
    ELSE LET result == Parse_WWW_Authenticate(header)
         IN  IF result.thrown \/ result.err # Null THEN "" ELSE Str(result.scheme)

(* the challenge headers whose scheme is Basic in some case of letters *)
BasicChallenges ==
    {h \in ChalHeaders : SchemeOf(h) \in {"Basic", "basic", "BASIC"}}

(* C16: when the scheme of the challenge a login works with is Basic in any
   case of letters, login returns the Basic credential with the username and the password
   the client was constructed with, and the call sends no request for its
   login but, at most, the ping. *)
C16_BasicNeedsNoRequest ==
    \A c \in Calls :
        LET call == calls[c]
        IN  (~call.hit /\ ChallengeOf(call) \in BasicChallenges)
            => /\ call.result = AuthInfo("basic", opts.username, opts.password, "")
               /\ LoginRequests(call) \in {<<>>, <<PingRequest>>}
               /\ (call.chal = NoHeader <=> LoginRequests(call) = <<PingRequest>>)
               /\ (~call.loginDone => call.pc = "loginReturned")
               /\ (call.loginDone => _authInfo = call.result)

(* C16 witness: a client with a username and a password has logged in with
   the challenge BASIC that came with the answer to its ping. *)
C16_Witness ==
    \E c \in Calls :
        /\ calls[c].op = "login" /\ calls[c].pc = "done"
        /\ calls[c].pinged.chal = HdrBasicUpper
        /\ calls[c].reqs = <<PingRequest>>
        /\ _authInfo = AuthInfo("basic", "u", "p", "")
        /\ Authorization(_headers) = "Basic dTpw"

(* C17: when the token endpoint has answered 401 with a body of the shape
   {errors: [{message}]} or of the shape {details}, the call has failed with
   the error of the failed authentication, and the message of the error
   ends with the message the server gave. *)
C17_AuthFailureCarriesServerMessage ==
    \A c \in Calls :
        LET call == calls[c]
        IN  (call.tokened.status = 401 /\ call.tokened.body.json = "object"
                /\ call.tokened.errJson \in {ErrorsShape, DetailsShape})
            => /\ call.pc = "failed"
               /\ call.err = AuthFailed \o ServerMessage

NoTokenError == "authorization server did not include a token in the response"

(* C18: when the token endpoint has answered 200 with a JSON object, then,
   if its token is a string, login returns the Bearer credential with just
   that string, and the client holds it once the login step is over; if the
   token is missing or is not a string, the call has failed with the error
   of the missing token and the client is as it was when the call began. *)
C18_TokenMustBeString ==
    \A c \in Calls :
        LET call == calls[c]
            body == call.tokened.body
        IN  (call.tokened.status = 200 /\ body.json = "object")
            => IF body.tokenType = "string"
               THEN /\ call.result = AuthInfo("bearer", "", "", body.token)
                    /\ (~call.loginDone => call.pc = "loginReturned")
                    /\ (call.loginDone => _authInfo = call.result)
               ELSE /\ call.pc = "failed"
                    /\ call.err = NoTokenError
                    /\ ~call.loginDone
                    /\ ClientState = call.pre
                    /\ ~LoginCached(call.scope)

(* C18 witness: a client logged in with a token for one scope has failed to
   log in for another one because the token in the answer was a number. *)
C18_Witness ==
    \E c \in Calls :
        /\ calls[c].pc = "failed"
        /\ calls[c].tokened.status = 200
        /\ calls[c].tokened.body.tokenType = "number"
        /\ calls[c].pre.loggedIn
        /\ _authInfo = AuthInfo("bearer", "", "", "tA")

(* the challenge headers that parse and whose scheme is neither Basic nor
   Bearer *)
OtherChallenges ==
    {h \in ChalHeaders :
        SchemeOf(h) \notin {"", "Basic", "basic", "BASIC",
                            "Bearer", "bearer", "BEARER"}}

(* C19: when the scheme of the challenge a login works with is neither
   Basic nor Bearer, the call has failed with the error of the unsupported
   scheme, has sent no token request and no second ping, and the client is
   as it was when the call began. *)
C19_UnsupportedSchemeIsFatal ==
    \A c \in Calls :
        LET call == calls[c]
        IN  (~call.hit /\ ChallengeOf(call) \in OtherChallenges)
            => /\ call.pc = "failed"
               /\ call.err = "unsupported auth scheme"
               /\ ~call.loginDone
               /\ TokenRequests(call) = <<>>
               /\ LoginRequests(call) \in {<<>>, <<PingRequest>>}
               /\ OperationRequests(call) = <<>>
               /\ ClientState = call.pre

(* C19 witness: a client logged in for one scope has failed to log in for
   another one with a Digest challenge. *)
C19_Witness ==
    \E c \in Calls :
        /\ calls[c].pc = "failed"
        /\ calls[c].pinged.chal = HdrDigest
        /\ calls[c].pre.loggedIn /\ calls[c].pre.scope # calls[c].scope
        /\ Authorization(_headers) = "Bearer tA"

(* C20: a call of ping() sends one request, GET /v2/, without an
   Authorization header, whatever the client holds; it returns the response
   when its status is 200, 401 or 404 and fails only for another status or
   for a body that cannot be read; and the login flag, the scope, the
   credential and the default headers of the client stay what they were. *)
C20_PingSendsNoCredentials ==
    \A c \in Calls :
        LET call == calls[c]
        IN  call.op = "ping"
            => /\ Len(call.reqs) = 1
               /\ call.reqs[1].kind = "ping" /\ call.reqs[1].method = "GET"
               /\ ~HeadersHas(call.reqs[1].headers, "authorization")
               /\ ClientState = call.pre
               /\ call.pc \in {"pingOp", "done", "failed"}
               /\ (call.pc = "done" =>
                     /\ call.ret.kind = "response"
                     /\ call.ret.status \in {200, 401, 404})
               /\ (call.pc = "failed" =>
                     \/ call.rejected.status \notin {0, 200, 401, 404}
                     \/ call.err = "ping body could not be decoded")

(* C20 witness: ping() has returned a 401 response on a client that is
   logged in and holds a Bearer header. *)
C20_Witness ==
    \E c \in Calls :
        /\ calls[c].op = "ping" /\ calls[c].pc = "done"
        /\ calls[c].ret.status = 401
        /\ _loggedIn
        /\ Authorization(_headers) = "Bearer tA"

(* the Docker-Distribution-Api-Version headers of the environment that hold
   the token registry/2.0 between blanks and commas *)
V2Headers == {ApiV2, ApiV1V2, ApiV2Tab}

(* C21: a call of supportsV2() that has ended has returned false when its
   ping() failed with an error that carries a response, has failed with that
   error when the error carries no response, and otherwise has returned true
   exactly when the Docker-Distribution-Api-Version header of the response
   holds the token registry/2.0 or the status is 200 or 401. *)
C21_SupportsV2 ==
    \A c \in Calls :
        LET call == calls[c]
        IN  call.op = "supportsV2" /\ call.pc # "supportsV2"
            => IF call.ponged.err # Null
               THEN IF call.ponged.errStatus # 0
                    THEN call.pc = "done" /\ call.ret.kind = "false"
                    ELSE call.pc = "failed" /\ call.err = call.ponged.err
               ELSE /\ call.pc = "done"
                    /\ call.ponged.status # 0
                    /\ call.ret.kind \in {"true", "false"}
                    /\ call.ret.kind = "true"
                         <=> \/ call.ponged.apiVersion \in V2Headers
                             \/ call.ponged.status \in {200, 401}

(* C21 witness: supportsV2() has returned true for a 404 response whose
   header lists registry/1.0 and registry/2.0. *)
C21_Witness ==
    \E c \in Calls :
        /\ calls[c].op = "supportsV2" /\ calls[c].pc = "done"
        /\ calls[c].ponged.status = 404
        /\ calls[c].ponged.apiVersion = ApiV1V2
        /\ calls[c].ret.kind = "true"

UnexpectedError == "Received unexpected HTTP status"

UnparsedError == "Received unexpected HTTP status - and failed to parse error body"

(* a status other than 401 that getManifest does not expect: the call has
   failed with the error of the request as it was thrown *)
OtherStatusPropagated(call) ==
    call.rejected.status \notin {0, 401}
        => /\ call.pc = "failed"
           /\ IF call.rejected.parsed
              THEN call.err = UnexpectedError
                   /\ call.errStatus = call.rejected.status
              ELSE call.err = UnparsedError /\ call.errStatus = 0

(* no request follows the manifest request of the call *)
NoRequestAfterManifest(call) ==
    /\ Len(OperationRequests(call)) = 1
    /\ call.reqs[Len(call.reqs)].kind = "getManifest"

(* C22 as stated: every 401 answer to the manifest request, sent after the
   login step has succeeded, makes getManifest fail with the Not Found error,
   without a response and without another login; the error for another
   status is the one the request threw. *)
C22_Every401IsNotFound ==
    \A c \in Calls :
        LET call == calls[c]
        IN  call.op = "getManifest" /\ call.loginDone
            => /\ (call.rejected.status = 401
                    => /\ call.pc = "failed"
                       /\ call.err = NotFound401 \o UnexpectedError
                       /\ call.errStatus = 0
                       /\ NoRequestAfterManifest(call))
               /\ OtherStatusPropagated(call)

(* C22 amended: a 401 answer to the manifest request of which dockerError()
   could make an error (its body is HTML or can be read) makes getManifest
   fail with the Not Found error, which carries no response, and no request
   follows; a 401 answer whose body cannot be read makes it fail with the
   error of the unparsed body; the error for another status is the one the
   request threw. *)
C22_Parsed401IsNotFound ==
    \A c \in Calls :
        LET call == calls[c]
        IN  call.op = "getManifest" /\ call.loginDone
            => /\ (call.rejected.status = 401
                    => /\ call.pc = "failed"
                       /\ call.errStatus = 0
                       /\ NoRequestAfterManifest(call)
                       /\ IF call.rejected.parsed
                          THEN call.err = NotFound401 \o UnexpectedError
                          ELSE call.err = UnparsedError)
               /\ OtherStatusPropagated(call)

(* C22 witness: getManifest, logged in with a token, has failed with the Not
   Found error for a 401 answer. *)
C22_Witness ==
    \E c \in Calls :
        /\ calls[c].op = "getManifest" /\ calls[c].loginDone
        /\ calls[c].rejected.status = 401 /\ calls[c].rejected.parsed
        /\ calls[c].err = NotFound401 \o UnexpectedError
        /\ Authorization(_headers) = "Bearer tA"

(* the layers array of a manifest that is not a list: layers in schema
   version 2, fsLayers otherwise *)
LayersOf(m) == IF m.schemaVersion = 2 THEN m.layers ELSE m.fsLayers

(* a manifest list without entries, or another manifest without layers *)
StructurallyEmpty(m) ==
    IF m.mediaType = MEDIATYPE_MANIFEST_LIST_V2 THEN m.manifests < 1
    ELSE LayersOf(m) < 1

(* the errors getManifest raises for the content of a manifest; TypeError is
   the one of a schema-1 manifest whose fsLayers or history is missing *)
ContentErrors ==
    {"no manifests in manifest list", "no layers in manifest",
     "unsupported schema version", "TypeError"}

(* C23: getManifest returns no structurally empty manifest: when the parsed
   manifest is a list whose manifests array is missing or empty, or another
   manifest whose layers array is missing or empty, the call has failed with
   an error about the content and has returned nothing; and a manifest that
   has been returned has at least one layer or at least one entry. *)
C23_NoEmptyManifestReturned ==
    \A c \in Calls :
        LET call == calls[c]
        IN  call.op = "getManifest" /\ call.pc \in {"done", "failed"}
            => /\ (call.got # NoManifest /\ StructurallyEmpty(call.got)
                    => /\ call.pc = "failed"
                       /\ call.err \in ContentErrors
                       /\ call.ret = NothingReturned)
               /\ (call.ret.kind = "manifest"
                    => /\ call.ret.manifest = call.got
                       /\ \/ call.ret.manifest.manifests >= 1
                          \/ call.ret.manifest.layers >= 1
                          \/ call.ret.manifest.fsLayers >= 1)

(* C23 witness: getManifest has failed for a schema-2 manifest whose layers
   array is empty, asked for with maxSchemaVersion 2. *)
C23_Witness ==
    \E c \in Calls :
        /\ calls[c].op = "getManifest" /\ calls[c].pc = "failed"
        /\ calls[c].got = Manifest(2, MEDIATYPE_MANIFEST_V2, -1, 0, -1, -1)
        /\ calls[c].err = "no layers in manifest"

UnsupportedSchema == "unsupported schema version"

(* C24: getManifest fails with the error of the unsupported schema version
   for every parsed body whose schemaVersion is 1, whatever the options; no
   such manifest is returned. *)
C24_SchemaOneRejected ==
    \A c \in Calls :
        LET call == calls[c]
        IN  call.op = "getManifest" /\ call.got.schemaVersion = 1
            => call.pc = "failed" /\ call.err = UnsupportedSchema

(* the manifest request a getManifest call has sent *)
ManifestRequest(call) == call.reqs[Len(call.reqs)]

AcceptBoth == MEDIATYPE_MANIFEST_V2 \o ", " \o MEDIATYPE_MANIFEST_LIST_V2

(* the media types an Accept header of the model lists *)
Listed(accept) ==
    IF accept = AcceptBoth
    THEN {MEDIATYPE_MANIFEST_V2, MEDIATYPE_MANIFEST_LIST_V2}
    ELSE {accept}

(* manifest-list acceptance of a getManifest call: the option of the call,
   else the option of the client *)
ListsEnabled(call) ==
    IF call.args.acceptManifestLists = "undefined" THEN opts.acceptManifestLists
    ELSE call.args.acceptManifestLists = "true"

(* C25: a manifest that getManifest has returned has a mediaType that the
   Accept header of its request lists; a manifest list has been returned
   only when manifest-list acceptance was asked for. *)
C25_ReturnedTypeWasAccepted ==
    \A c \in Calls :
        LET call == calls[c]
        IN  call.op = "getManifest" /\ call.ret.kind = "manifest"
            => /\ call.ret.manifest.mediaType
                    \in Listed(HeadersGet(ManifestRequest(call).headers, "accept"))
               /\ (call.ret.manifest.mediaType = MEDIATYPE_MANIFEST_LIST_V2
                    => ListsEnabled(call))

(* C26: the manifest request of every getManifest call carries an Accept
   header that lists the Schema-V2 manifest media type first, followed by the
   manifest-list media type exactly when manifest-list acceptance is in
   effect. *)
C26_AcceptListsManifestTypes ==
    \A c \in Calls :
        LET call == calls[c]
        IN  call.op = "getManifest" /\ call.pc \in {"getManifest", "done", "failed"}
                /\ call.loginDone
            => /\ ManifestRequest(call).kind = "getManifest"
               /\ HeadersGet(ManifestRequest(call).headers, "accept")
                    = IF ListsEnabled(call) THEN AcceptBoth
                      ELSE MEDIATYPE_MANIFEST_V2

(* the operations that hand the error of their own request to the caller *)
RequestOperations == {"ping", "listTags", "getManifest", "deleteManifest", "headBlob"}

(* the statuses the request of an operation expects *)
ExpectedStatus(call) ==
    CASE call.op = "ping" -> {200, 401, 404}
      [] call.op = "listTags" -> {200}
      [] call.op = "deleteManifest" -> {200, 202}
      [] call.op = "headBlob" -> {200, 302, 307}
      [] call.op = "getManifest" ->
            IF call.args.followRedirects = "false" THEN {200, 301, 302, 307}
            ELSE {200}

(* what an operation has returned came with an expected status *)
ReturnedIsExpected(call) ==
    call.pc = "done" => /\ call.rejected.status = 0
                        /\ call.ret.status \in ExpectedStatus(call)

(* C27 as stated: a response whose status the operation does not expect
   makes the operation fail with an error that carries that response; no
   such response is returned as a success. *)
C27_UnexpectedStatusCarriesResponse ==
    \A c \in Calls :
        LET call == calls[c]
        IN  call.op \in RequestOperations
            => /\ (call.rejected.status # 0
                    => /\ call.rejected.status \notin ExpectedStatus(call)
                       /\ call.pc = "failed"
                       /\ call.ret = NothingReturned
                       /\ call.errStatus = call.rejected.status)
               /\ ReturnedIsExpected(call)

(* C27 amended: a response whose status the operation does not expect makes
   the operation fail and nothing is returned; the error carries the
   response, with its status, unless dockerError() could not read the body
   of the response or the operation is getManifest and the status is 401:
   those two errors carry no response. *)
C27_UnexpectedStatusFails ==
    \A c \in Calls :
        LET call == calls[c]
        IN  call.op \in RequestOperations
            => /\ (call.rejected.status # 0
                    => /\ call.rejected.status \notin ExpectedStatus(call)
                       /\ call.pc = "failed"
                       /\ call.ret = NothingReturned
                       /\ call.errStatus =
                            IF \/ ~call.rejected.parsed
                               \/ (call.op = "getManifest"
                                     /\ call.rejected.status = 401)
                            THEN 0 ELSE call.rejected.status)
               /\ ReturnedIsExpected(call)

(* C27 witness: getManifest has failed with the error that carries the 404
   response of the registry. *)
C27_Witness ==
    \E c \in Calls :
        /\ calls[c].op = "getManifest" /\ calls[c].pc = "failed"
        /\ calls[c].rejected.status = 404
        /\ calls[c].errStatus = 404
        /\ calls[c].err = UnexpectedError

(* C28: a redirect in answer to the request of listTags does not make
   listTags fail: the call goes on to fetch the target of the redirect. *)
C28_ListTagsFollowsRedirects ==
    \A c \in Calls :
        LET call == calls[c]
        IN  call.op = "listTags" /\ call.loginDone
            => ~(call.pc = "failed" /\ call.rejected.status \in {301, 302, 307, 308})

(* the scheme the constructor leaves in the index of the client: the scheme
   option, else http for a localhost index without a scheme, else the
   scheme of the index *)
SchemeOfClient ==
    IF given.scheme # "" THEN given.scheme
    ELSE IF given.index.scheme = "" /\ given.index.name = "localhost" THEN "http"
    ELSE given.index.scheme

(* C29: in every state, whatever calls have run and however they ended, the
   repo of the client is the copy the constructor made of the caller's repo,
   with the scheme the constructor chose, the base URL is the URL of that
   index, and the index object of the caller is as the caller handed it
   over. *)
C29_RepoAndUrlNeverChange ==
    /\ heap[CallerIndex] = given.index
    /\ repo.index # CallerIndex
    /\ repo.remoteName = RemoteName
    /\ heap[repo.index] = [given.index EXCEPT !.scheme = SchemeOfClient]
    /\ _url = IF given.index.official THEN DEFAULT_V2_REGISTRY
              ELSE (IF SchemeOfClient = "" THEN "https" ELSE SchemeOfClient)
                   \o "://" \o given.index.name

(* C29 witness: a client made from an https index with the scheme option
   http has logged in and has run a headBlob call to its end; the index of
   the client says http and the caller's index still says https. *)
C29_Witness ==
    /\ given.index.scheme = "https" /\ given.scheme = "http"
    /\ heap[CallerIndex].scheme = "https"
    /\ heap[repo.index].scheme = "http"
    /\ _loggedIn
    /\ \E c \in Calls : calls[c].op = "headBlob" /\ calls[c].pc = "done"

(* C30: for a header that is well formed (a scheme of word characters, a
   blank, and one or more pairs with different keys, each value bare or in
   quotes with its quotes doubled), the parser gives no error, the scheme as
   written, and exactly the pairs as they are meant: a doubled quote in a
   quoted value is one quote of the value. *)
C30_WellFormedParsesExactly ==
    parsed # NotParsed
        => /\ ~parsed.thrown
           /\ parsed.err = Null
           /\ parsed.scheme = challenge.scheme
           /\ parsed.parms = {<<challenge.pairs[i].key, challenge.pairs[i].value>> :
                                i \in 1..Len(challenge.pairs)}

(* C30 witness: the parser has read a header whose first value is a"b in
   quotes, written with the quote doubled, and whose second value is bare. *)
C30_Witness ==
    /\ parsed # NotParsed
    /\ Len(challenge.pairs) = 2
    /\ challenge.pairs[1].quoted /\ challenge.pairs[1].value = <<"a", "\"", "b">>
    /\ ~challenge.pairs[2].quoted /\ challenge.pairs[2].blank
    /\ <<challenge.pairs[1].key, <<"a", "\"", "b">>>> \in parsed.parms

(* the pairs of a header as the parser should give them *)
PairsOf(ch) == {<<ch.pairs[i].key, ch.pairs[i].value>> : i \in 1..Len(ch.pairs)}

(* C31 as stated: for every malformed header (a key that is not followed by
   an equal sign, a dangling comma, a quoted value that is not closed) the
   parser reports an error that is not empty and gives no scheme and no
   parameters, none of the pairs before the error included. *)
C31_MalformedGivesErrorOnly ==
    parsed # NotParsed
        => /\ ~parsed.thrown
           /\ parsed.err \notin {Null, ""}
           /\ parsed.scheme = <<>>
           /\ parsed.parms = {}

(* C31: for a header with a key that is not followed by an equal sign, with
   a quoted value that is not closed, or with a comma after the last pair
   that is followed by a blank, the parser reports an error that is not
   empty and gives no scheme and no parameters; a comma that ends the header
   right after a pair is ignored: no error, and the pairs before it. *)
C31_MalformedButTerminalComma ==
    parsed # NotParsed
        => /\ ~parsed.thrown
           /\ IF challenge.fault = Fault("danglingComma", <<>>)
              THEN /\ parsed.err = Null
                   /\ parsed.scheme = challenge.scheme
                   /\ parsed.parms = PairsOf(challenge)
              ELSE /\ parsed.err \notin {Null, ""}
                   /\ parsed.scheme = <<>>
                   /\ parsed.parms = {}

(* C31 witness: the parser has read a header with a bare pair and then a
   quoted value that is not closed; it reports the error and no pair. *)
C31_Witness ==
    /\ parsed # NotParsed
    /\ Len(challenge.pairs) = 1 /\ ~challenge.pairs[1].quoted
    /\ challenge.fault.kind = "unterminated"
    /\ parsed.err = "Unexpected end of www-authenticate value."
    /\ parsed.parms = {}

(* the challenge headers for which the parser gives no scheme and no
   parameters *)
UnparsedChallenges == {h \in ChalHeaders : SchemeOf(h) = ""}

(* C32: the parser answers every header value, a scheme without parameters
   included, with a scheme and parameters or with a parse error, so that a
   login that works with a challenge the parser gives no scheme for has
   failed with the error that the header could not be parsed, and with no
   other error. *)
C32_UnparsedIsParseError ==
    \A c \in Calls :
        LET call == calls[c]
        IN  (~call.hit /\ ChallengeOf(call) \in UnparsedChallenges)
            => /\ call.pc = "failed"
               /\ call.err = "could not parse WWW-Authenticate header"

(* the errors createBlobReadStream raises for the Docker-Content-Digest
   header of the first response *)
DigestHeaderErrors ==
    {"could not parse Docker-Content-Digest header",
     "Docker-Content-Digest header does not match given digest"}

(* C33: once createBlobReadStream has returned or thrown: when the first
   response carries a Docker-Content-Digest header whose value differs from
   the digest asked for, the call has failed with a digest error, no chunk
   of the blob has been read and none has been handed to the caller; when
   the first response carries no such header, the call has not failed and
   the stream is handed out without a validator, so it never raises a
   digest error. *)
C33_MismatchFailsBeforeAnyByte ==
    stream.pc \notin {"none", "responded"}
        => LET dcdHeader == stream.ress[1].dcd
           IN  /\ (dcdHeader # <<>> /\ dcdHeader # stream.digest)
                      => /\ stream.pc = "failed"
                         /\ stream.err \in DigestHeaderErrors
                         /\ stream.read = 0
                         /\ stream.out = <<>>
               /\ dcdHeader = <<>>
                      => /\ stream.pc \in {"streaming", "ended"}
                         /\ ~stream.validated
                         /\ stream.err = Null /\ stream.errors = 0

(* C33 witness: the first response, a redirect, named another sha256 digest
   than the one asked for; the call has failed and the blob, which has
   chunks, is untouched. *)
C33_Witness ==
    /\ stream.pc = "failed"
    /\ Len(stream.ress) = 2
    /\ stream.ress[1].dcd \in RequestedDigests
    /\ stream.ress[1].dcd # stream.digest
    /\ stream.source # <<>>
    /\ stream.read = 0 /\ stream.out = <<>>

(* C34: a stream with the validator has handed on, unchanged and in order,
   every chunk it has read; it raises no error while chunks are still to
   come; it ends without an error exactly when the digest of all the bytes
   is the expected one, and otherwise it has raised one error, at the end,
   after all the chunks were handed on. *)
C34_ValidatorForwardsThenJudges ==
    stream.validated
        => /\ stream.pc \in {"streaming", "ended", "errored"}
           /\ stream.out = SubSeq(stream.source, 1, stream.read)
           /\ (stream.pc = "streaming" => stream.errors = 0 /\ stream.err = Null)
           /\ (stream.pc = "ended"
                 => /\ stream.out = stream.source
                    /\ stream.errors = 0 /\ stream.err = Null
                    /\ Hex(HashOfChunks(0, stream.source)) = stream.expected)
           /\ (stream.pc = "errored"
                 => /\ stream.out = stream.source
                    /\ stream.errors = 1 /\ stream.err = "digest mismatch"
                    /\ Hex(HashOfChunks(0, stream.source)) # stream.expected)

(* C34 witness: a validated stream of two chunks whose bytes have another
   digest than the expected one has handed on both chunks and then raised
   its one error. *)
C34_Witness ==
    /\ stream.validated
    /\ stream.pc = "errored"
    /\ Len(stream.source) = 2
    /\ stream.out = stream.source
    /\ stream.errors = 1

(* C35: a step that changes the login flag, the logged-in scope, the cached
   credential or the default headers of the client is the completion of a
   login that returned: it sets the flag, the scope of that login, its
   credential and the Authorization header made of it.  No other step (a
   ping, supportsV2, the sending of a request of listTags, getManifest or
   deleteManifest, a step of the blob loop, a response) changes them. *)
C35_OnlyLoginCompletionWrites ==
    [][ClientState' # ClientState
         => \E c \in Calls :
               /\ calls[c].pc = "loginReturned"
               /\ calls'[c].loginDone
               /\ ClientState' =
                     [loggedIn |-> TRUE, scope |-> calls[c].scope,
                      authInfo |-> calls[c].result,
                      headers |-> _setAuthHeaderFromAuthInfo(_headers,
                                                             calls[c].result)]]_vars

(* C35 witness: a getManifest call has sent its request with the Accept
   header that lists the manifest types, and the default headers of the
   client, which is logged in, have no Accept header. *)
C35_Witness ==
    /\ _loggedIn
    /\ ~HeadersHas(_headers, "accept")
    /\ \E c \in Calls :
          /\ calls[c].op = "getManifest" /\ calls[c].pc = "done"
          /\ HeadersGet(ManifestRequest(calls[c]).headers, "accept") = AcceptBoth

(* the GET /v2/ requests among the requests of a call *)
Pings(call) == SelectSeq(call.reqs, LAMBDA r : r.kind = "ping")

(* the challenge headers whose scheme is Bearer in some case of letters *)
BearerChallenges ==
    {h \in ChalHeaders : SchemeOf(h) \in {"Bearer", "bearer", "BEARER"}}

(* C36: a call that logs in (it found no login for its scope) and was given
   a ping response with a WWW-Authenticate header sends no GET /v2/ and
   works with that header at once: a header that does not parse fails the
   call before any request, a Basic one needs no request, a Bearer one makes
   the token request the first request of the call.  A call that was given
   no ping response, or one without the header, sends exactly one GET /v2/,
   without an Authorization header, as its first request; when the answer
   is not one that ping() hands back with status 200 or 401, the call has
   failed at once, with no further request and no login. *)
C36_PingOnlyWithoutChallenge ==
    \A c \in Calls :
        LET call == calls[c]
        IN  (call.op \in {"login"} \cup Operations /\ ~call.hit)
            => /\ call.chal # NoHeader
                    => /\ Pings(call) = <<>>
                       /\ call.pinged = NotPinged
                       /\ (call.chal \in UnparsedChallenges
                             => call.pc = "failed" /\ call.reqs = <<>>)
                       /\ (call.chal \in BasicChallenges
                             => LoginRequests(call) = <<>>)
                       /\ (call.chal \in BearerChallenges
                             => call.reqs # <<>> /\ call.reqs[1].kind = "token")
               /\ call.chal = NoHeader
                    => /\ Pings(call) = <<PingRequest>>
                       /\ call.reqs[1] = PingRequest
                       /\ ~HeadersHas(PingRequest.headers, "authorization")
                       /\ (call.pc # "ping" /\ call.pinged.status \notin {200, 401}
                             => /\ call.pc = "failed" /\ ~call.loginDone
                                /\ Len(call.reqs) = 1)

(* C36 witness: a login call that was given a ping response with a Bearer
   challenge has logged in with a token; its only request was the token
   request. *)
C36_Witness ==
    \E c \in Calls :
        /\ calls[c].op = "login" /\ calls[c].pc = "done" /\ ~calls[c].hit
        /\ calls[c].chal = HdrBearer
        /\ Len(calls[c].reqs) = 1 /\ calls[c].reqs[1].kind = "token"
        /\ _authInfo.type = "bearer"

(* a getManifest call with the default options: maxSchemaVersion is given
   neither to the call nor to the client *)
DefaultSchema(call) == call.args.maxSchemaVersion = 0 /\ opts.maxSchemaVersion = 0

(* C37 as stated: getManifest fails with the error of the unsupported schema
   version for every parsed manifest whose schemaVersion is greater than the
   maxSchemaVersion in effect (the option of the call, else the one of the
   client, else 1); a manifest it returns with the default options is a
   manifest of schema version 1 whose fsLayers array is not empty and as
   long as its history array. *)
C37_DefaultReturnsSchemaOne ==
    \A c \in Calls :
        LET call == calls[c]
        IN  call.op = "getManifest"
            => /\ (call.got.schemaVersion > EffectiveMaxSchemaVersion(call.args)
                    => call.pc = "failed" /\ call.err = UnsupportedSchema)
               /\ (DefaultSchema(call) /\ call.ret.kind = "manifest"
                    => /\ call.ret.manifest.schemaVersion = 1
                       /\ call.ret.manifest.fsLayers >= 1
                       /\ call.ret.manifest.fsLayers = call.ret.manifest.history)

(* C37: getManifest fails with the error of the unsupported schema version
   for every parsed manifest whose schemaVersion is greater than the
   maxSchemaVersion in effect; a manifest it returns with the default
   options has no schemaVersion greater than 1, and when it is of schema
   version 1 and its mediaType is not the one of a manifest list, its
   fsLayers array is not empty and as long as its history array. *)
C37_SchemaAboveMaxRejected ==
    \A c \in Calls :
        LET call == calls[c]
        IN  call.op = "getManifest"
            => /\ (call.got.schemaVersion > EffectiveMaxSchemaVersion(call.args)
                    => call.pc = "failed" /\ call.err = UnsupportedSchema)
               /\ (DefaultSchema(call) /\ call.ret.kind = "manifest"
                    => /\ ~(call.ret.manifest.schemaVersion > 1)
                       /\ (call.ret.manifest.schemaVersion = 1
                            /\ call.ret.manifest.mediaType # MEDIATYPE_MANIFEST_LIST_V2
                             => /\ call.ret.manifest.fsLayers >= 1
                                /\ call.ret.manifest.fsLayers
                                     = call.ret.manifest.history))

(* C37 witness: with the default options one getManifest call has returned a
   schema-1 manifest with two fsLayers and two history entries. *)
C37_Witness ==
    \E c \in Calls :
        /\ calls[c].op = "getManifest" /\ calls[c].pc = "done"
        /\ DefaultSchema(calls[c])
        /\ calls[c].ret.manifest = Manifest(1, Null, -1, -1, 2, 2)

(* a call is inside the blob loop: it waits for the answer to a request of
   the loop or for the end of the body of a redirect *)
InBlobLoop(c) == calls[c].pc \in {"blob", "blobBody"}

(* the blob loop of a call has returned its responses or has thrown *)
BlobLoopOver(c) == calls[c].pc \in {"blobReturned", "done", "failed"}

(* C38: a call never sends more than three requests of the blob loop, and a
   call that is inside the loop gets out of it, with the list of responses
   or with an error, whatever the server answers: a 200, an error status, or
   redirect after redirect. *)
C38_BlobLoopEnds ==
    /\ [](\A c \in Calls : Len(BlobRequests(calls[c])) <= MaxRedirects)
    /\ \A c \in Calls : InBlobLoop(c) ~> BlobLoopOver(c)

(* C38 witness: a headBlob call has failed with the error of too many
   redirects after three requests that were all answered with a redirect to
   a path of the same origin. *)
C38_Witness ==
    \E c \in Calls :
        /\ calls[c].op = "headBlob" /\ calls[c].pc = "failed"
        /\ calls[c].err = "maximum number of redirects hit"
        /\ Len(BlobRequests(calls[c])) = MaxRedirects
        /\ \A i \in 1..Len(calls[c].ress) : calls[c].ress[i].location = LocPath

(* C39: the client starts not logged in, with no scope and no credential;
   in every state, whatever calls overlap, a client whose login flag is set
   has a logged-in scope and a credential; and no step takes the login flag
   back. *)
C39_LoggedInStaysAndHasScope ==
    /\ (~_loggedIn /\ _loggedInScope = Null /\ _authInfo = NullAuthInfo)
    /\ [](_loggedIn => _loggedInScope \notin {Null, ""} /\ _authInfo # NullAuthInfo)
    /\ [][_loggedIn => _loggedIn']_vars

(* C39 witness: on a client that is logged in, a call that started when the
   client was logged in already has failed in its own login, for another
   scope, while another call is still in flight. *)
C39_Witness ==
    /\ _loggedIn /\ _loggedInScope # Null /\ _authInfo # NullAuthInfo
    /\ \E c, d \in Calls :
          /\ c # d
          /\ calls[c].pc = "failed" /\ ~calls[c].loginDone
          /\ calls[c].pre.loggedIn /\ calls[c].scope # _loggedInScope
          /\ calls[d].pc \notin {"idle", "done", "failed"}

(* the Authorization header the constructor installs for opts.token *)
ConstructorTokenHeader == "Bearer " \o opts.token

(* C40: on a client that is logged in, the Authorization header of the
   default headers is the one of the credential of the login, whatever the
   constructor installed; and on a client constructed with a token, no
   request of listTags, getManifest, deleteManifest or headBlob carries the
   token of the constructor. *)
C40_LoginReplacesConstructorHeader ==
    /\ _loggedIn => Authorization(_headers) = HeaderByContent(_authInfo)
    /\ opts.token # ""
         => \A c \in Calls :
               LET requests == OperationRequests(calls[c])
               IN  calls[c].op \in Operations
                   => \A i \in DOMAIN requests :
                         Authorization(requests[i].headers) # ConstructorTokenHeader

(* C40 witness: on a client constructed with a token, an operation has sent
   its request with the token of the token endpoint, after a login that
   began with the header of the constructor. *)
C40_Witness ==
    /\ opts.token = "t0"
    /\ \E c \in Calls :
          LET requests == OperationRequests(calls[c])
          IN  /\ calls[c].op \in Operations /\ ~calls[c].hit
              /\ Authorization(calls[c].pre.headers) = ConstructorTokenHeader
              /\ requests # <<>>
              /\ Authorization(requests[1].headers) = "Bearer tA"
====
